---- MODULE Spec2Model ----
(***************************************************************************)
(* A model of mecode's serial printer driver (src/mecode/printer.py):      *)
(* the frame codec (_next_line, _checksum), the send buffer and its        *)
(* sender thread (_print_worker), the receiver thread (_read_worker), the  *)
(* pending wait table (_readline_future, _set_readline_result), the        *)
(* blocking facade (get_response) and the connect/start/disconnect         *)
(* lifecycle.                                                              *)
(*                                                                         *)
(* Strings are sequences of character codes: "ok\n" is <<111, 107, 10>>.   *)
(***************************************************************************)
EXTENDS Integers, Sequences, FiniteSets, TLC

VARIABLES
    s,                      \* Printer.s: "None", "open" (a port given to connect, with its
                            \*   timeout and writeTimeout set, as the tests' is) or
                            \*   "Serial" (the port connect() makes)
    _owns_serial,           \* Printer._owns_serial
    responses,              \* Printer.responses: the response log
    sentlines,              \* Printer.sentlines: the sent log
    temp_readings,          \* Printer.temp_readings
    printing,               \* Printer.printing
    stop_reading,           \* Printer.stop_reading
    stop_printing,          \* Printer.stop_printing
    _buffer,                \* Printer._buffer: the send buffer
    _current_line_idx,      \* Printer._current_line_idx: the cursor (0-based)
    _ok_received,           \* Printer._ok_received (Event): the ack flag
    _resume_event,          \* Printer._resume_event (Event): set = not paused
    _disconnect_pending,    \* Printer._disconnect_pending
    _communication_lock,    \* holder of Printer._communication_lock, or "free"
    _readline_futures,      \* Printer._readline_futures: linenum -> future id
    futures,                \* every Future made so far: id -> [state, result]
    _print_thread,          \* the sender thread: [pc, line, tmp]
    _read_thread,           \* the receiver thread: [pc, line, full_resp, linenum, future, exc];
                            \*   lines: the lines it has read since it last completed a response
    caller,                 \* caller threads: c -> [pc, op, line, buf_len, future, timeout,
                            \*   result, ...]; rdead: the receiver has not run since the
                            \*   call began; pending: a disconnect was pending when it began
    main,                   \* the thread that calls connect/start/disconnect:
                            \*   [pc, wait, arg, buf_len, program, exc]; exc is the
                            \*   exception its last call raised, "" when it returned
    wire,                   \* every frame the transport was given (s.write calls), in order
    to_device,              \* frames written and not yet taken by the device
    from_device,            \* lines the device has sent and s.readline has not returned yet
    device,                 \* the device: [seen: frames taken, faults: frames rejected,
                            \*              reports: temperature reports sent,
                            \*              acked: the frames acknowledged]
    ghost,                  \* history: inflight, the frames written since the receiver
                            \*   last set the ack flag; timed_out, the callers whose last
                            \*   call ended by its timeout; resend, the line number of the
                            \*   last resend request the receiver took (0: none), and
                            \*   resend_at, the place on the wire of the first frame
                            \*   written after the receiver was done with it (0: not yet);
                            \*   resend_waiters, the callers that were blocked in
                            \*   get_response when the receiver took it; at_fault, the
                            \*   futures of the table when the receiver last caught a
                            \*   fault; write_error, a write of the sender has raised;
                            \*   paused_wire and paused_idx, the frames written and the
                            \*   cursor when paused was last set to True; pending, who
                            \*   has set the cursor since the sender last framed a line
                            \*   ("resend": a resend request, "clear": connect() or
                            \*   disconnect()); rolled, the places on the wire of the
                            \*   frames that were the first framed after a resend
                            \*   request set the cursor, and cleared, the same for
                            \*   connect() and disconnect() setting it to 0
    aerotech                \* an AerotechPrinter, connected, with its socket and read file:
                            \*   [_lines_sent_without_reading, sendall: the lines given
                            \*   to socket.sendall, readfile: the lines the peer has
                            \*   answered and readline has not returned yet, closed: the
                            \*   peer has closed the connection, calls: the calls made,
                            \*   op and result: the last call and how it ended]

vars == <<s, _owns_serial, responses, sentlines, temp_readings, printing, stop_reading,
          stop_printing, _buffer, _current_line_idx, _ok_received,
          _resume_event, _disconnect_pending, _communication_lock,
          _readline_futures, futures, _print_thread, _read_thread, caller,
          main, wire, to_device, from_device, device, ghost, aerotech>>

(***************************************************************************)
(* Bounds of the model.                                                    *)
(***************************************************************************)
MaxLen == 3        \* longest command text drawn for the codec
MaxCalls == 1      \* calls each caller thread makes
MaxFaults == 1     \* frames the device may reject with a resend request
MaxWire == 4       \* frames the transport takes
MaxProgram == 3    \* calls in a row, of any kind, that the main thread makes
MaxAerotech == 4   \* calls made on an AerotechPrinter
MaxReports == 1    \* temperature reports the device sends of its own accord

(***************************************************************************)
(* Strings.                                                                *)
(***************************************************************************)
\* str.strip() removes these characters: tab, LF, VT, FF, CR, space.
Whitespace == {9, 10, 11, 12, 13, 32}

RECURSIVE lstrip(_)
lstrip(str) ==
    IF str # <<>> /\ Head(str) \in Whitespace THEN lstrip(Tail(str)) ELSE str

RECURSIVE rstrip(_)
rstrip(str) ==
    IF str # <<>> /\ str[Len(str)] \in Whitespace
    THEN rstrip(SubSeq(str, 1, Len(str) - 1))
    ELSE str

strip(str) == rstrip(lstrip(str))

\* c in str (one character)
HasChar(str, c) == \E i \in 1..Len(str) : str[i] = c

\* str.split(c)[0]: the text before the first c
RECURSIVE SplitHead(_, _)
SplitHead(str, c) ==
    IF str = <<>> \/ Head(str) = c THEN <<>>
    ELSE <<Head(str)>> \o SplitHead(Tail(str), c)

\* str.startswith(prefix)
startswith(str, prefix) ==
    /\ Len(str) >= Len(prefix)
    /\ SubSeq(str, 1, Len(prefix)) = prefix

\* sub in str
Contains(str, sub) ==
    \E i \in 1..(Len(str) - Len(sub) + 1) : SubSeq(str, i, i + Len(sub) - 1) = sub

\* '{}'.format(n) for an integer n >= 0: its decimal digits
RECURSIVE format(_)
format(n) ==
    IF n < 10 THEN <<48 + n>> ELSE format(n \div 10) \o <<48 + (n % 10)>>

\* a ^ b on non-negative integers
RECURSIVE xor(_, _)
xor(a, b) ==
    IF a = 0 THEN b
    ELSE IF b = 0 THEN a
    ELSE ((a + b) % 2) + 2 * xor(a \div 2, b \div 2)

\* reduce(lambda a, b: a ^ b, codes) for a non-empty list
RECURSIVE reduce_xor(_)
reduce_xor(codes) ==
    IF Len(codes) = 1 THEN codes[1]
    ELSE xor(reduce_xor(SubSeq(codes, 1, Len(codes) - 1)), codes[Len(codes)])

M110 == <<77, 49, 49, 48>>                              \* 'M110'
M110N0 == <<77, 49, 49, 48, 32, 78, 48>>                     \* 'M110 N0'
G1 == <<71, 49>>                                         \* 'G1'
G90 == <<71, 57, 48>>                                    \* 'G90'
M114 == <<77, 49, 49, 52>>                               \* 'M114'
M900 == <<77, 57, 48, 48>>                               \* 'M900'
Comment == <<32, 59, 99>>                                \* ' ;c'
NoNewLine == <<110, 111, 32, 110, 101, 119, 32, 108, 105, 110, 101>>           \* 'no new line'
N1NoNewLine == <<78, 49, 32, 110, 111, 32, 110, 101, 119, 32, 108, 105, 110, 101, 42, 52, 52, 10>>
N2WithNewLine == <<78, 50, 32, 119, 105, 116, 104, 32, 110, 101, 119, 32, 108, 105, 110, 101, 42, 52, 52, 10>>
N2G90 == <<78, 50, 32, 71, 57, 48>>
WithNewLine == <<119, 105, 116, 104, 32, 110, 101, 119, 32, 108, 105, 110, 101, 10>>     \* 'with new line\n'
OK == <<111, 107>>                                       \* 'ok'
RESEND == <<82, 101, 115, 101, 110, 100, 58, 32>>        \* 'Resend: '

(***************************************************************************)
(* The frame codec.                                                        *)
(***************************************************************************)
\* A checksum that leaves the first character ('N') out.
_checksum_drop(line) ==
    IF line = <<>> THEN "RuntimeError" ELSE reduce_xor(Tail(line))

\* Printer._checksum: the xor of the character codes; an empty line raises.
_checksum(line) ==
    IF line = <<>> THEN "RuntimeError" ELSE reduce_xor(line)

\* A framing that numbers a line by its 0-based position.
_next_line_idx(buf, idx) ==
    LET line == strip(buf[idx + 1])
        n == idx
        framed == <<78>> \o format(n) \o <<32>> \o line
    IN  framed \o <<42>> \o format(_checksum(framed)) \o <<10>>

\* Printer._next_line with self._buffer = buf and self._current_line_idx = idx,
\* for 0 <= idx < len(buf) (buf is 1-based here).
_next_line(buf, idx) ==
    LET line == strip(buf[idx + 1])
        n == IF ~startswith(line, M110) THEN idx + 1 ELSE 0
        framed == <<78>> \o format(n) \o <<32>> \o line
    IN  framed \o <<42>> \o format(_checksum(framed)) \o <<10>>

\* A sendline that cuts the comment off without trimming the line first.
sendline_text_untrimmed(line) ==
    IF line = <<>> THEN <<>>
    ELSE IF HasChar(line, 59) THEN SplitHead(line, 59) ELSE line

\* Printer.sendline's treatment of its argument: what is appended to the
\* buffer, <<>> when nothing is.
sendline_text(line) ==
    IF line = <<>> THEN <<>>
    ELSE LET t == strip(line)
         IN  IF HasChar(t, 59) THEN SplitHead(t, 59) ELSE t

(***************************************************************************)
(* Threads.  threading.Thread.is_alive() is true from start() until the    *)
(* thread's target has returned and the thread has finished: "exiting" is  *)
(* the moment between the two.                                             *)
(***************************************************************************)
\* Printer.s is a port, and not None.
IsPort(port) == port \in {"open", "Serial"}

\* Printer._is_print_thread_running
_is_print_thread_running == _print_thread.pc \notin {"None", "dead"}

\* Printer._is_read_thread_running
_is_read_thread_running == _read_thread.pc \notin {"None", "dead"}

\* Printer.paused
paused == ~_resume_event

\* A thread that is not running: never made ("None") or finished ("dead").
NewThread(pc) == [pc |-> pc, line |-> <<>>, tmp |-> 0]
NewReader(pc) == [pc |-> pc, line |-> <<>>, full_resp |-> <<>>, lines |-> <<>>,
                  linenum |-> 0,
                  future |-> 0, exc |-> "", items |-> ""]

(***************************************************************************)
(* The sender thread: Printer._print_worker, one action per shared access. *)
(***************************************************************************)
\* while not self.stop_printing:
P_while ==
    /\ _print_thread.pc = "while"
    /\ _print_thread' = [_print_thread EXCEPT !.pc =
            IF stop_printing THEN "exiting" ELSE "if_paused"]
    /\ UNCHANGED <<s, _owns_serial, responses, temp_readings, sentlines, printing, stop_reading,
                   stop_printing, _buffer, _current_line_idx, _ok_received,
                   _resume_event, _disconnect_pending, _communication_lock,
                   _readline_futures, futures, _read_thread, caller, main,
                   wire, to_device, from_device, device, ghost, aerotech>>

\* A sender that does not look at paused.
P_if_paused_never ==
    /\ _print_thread.pc = "if_paused"
    /\ _print_thread' = [_print_thread EXCEPT !.pc = "if_idx"]
    /\ UNCHANGED <<s, _owns_serial, responses, sentlines, temp_readings,
                   printing, stop_reading, stop_printing, _buffer,
                   _current_line_idx, _ok_received, _resume_event,
                   _disconnect_pending, _communication_lock,
                   _readline_futures, futures, _read_thread, caller, main,
                   wire, to_device, from_device, device, ghost, aerotech>>

\* if self.paused and not self.stop_printing: self._resume_event.wait()
P_if_paused ==
    /\ _print_thread.pc = "if_paused"
    /\ _print_thread' = [_print_thread EXCEPT !.pc =
            IF paused /\ ~stop_printing THEN "resume_wait" ELSE "if_idx"]
    /\ UNCHANGED <<s, _owns_serial, responses, temp_readings, sentlines, printing, stop_reading,
                   stop_printing, _buffer, _current_line_idx, _ok_received,
                   _resume_event, _disconnect_pending, _communication_lock,
                   _readline_futures, futures, _read_thread, caller, main,
                   wire, to_device, from_device, device, ghost, aerotech>>

\* self._resume_event.wait() returns once the event is set
P_resume_wait ==
    /\ _print_thread.pc = "resume_wait"
    /\ _resume_event
    /\ _print_thread' = [_print_thread EXCEPT !.pc = "if_idx"]
    /\ UNCHANGED <<s, _owns_serial, responses, temp_readings, sentlines, printing, stop_reading,
                   stop_printing, _buffer, _current_line_idx, _ok_received,
                   _resume_event, _disconnect_pending, _communication_lock,
                   _readline_futures, futures, _read_thread, caller, main,
                   wire, to_device, from_device, device, ghost, aerotech>>

\* if self._current_line_idx < len(self._buffer): self.printing = True
\* else: sleep(0.01)
P_if_idx ==
    /\ _print_thread.pc = "if_idx"
    /\ IF _current_line_idx < Len(_buffer)
       THEN /\ printing' = TRUE
            /\ _print_thread' = [_print_thread EXCEPT !.pc = "ok_wait"]
       ELSE /\ printing' = printing
            /\ _print_thread' = [_print_thread EXCEPT !.pc = "idle"]
    /\ UNCHANGED <<s, _owns_serial, responses, temp_readings, sentlines, stop_reading,
                   stop_printing, _buffer, _current_line_idx, _ok_received,
                   _resume_event, _disconnect_pending, _communication_lock,
                   _readline_futures, futures, _read_thread, caller, main,
                   wire, to_device, from_device, device, ghost, aerotech>>

\* (after the sleep) self.printing = False
P_idle ==
    /\ _print_thread.pc = "idle"
    /\ printing' = FALSE
    /\ _print_thread' = [_print_thread EXCEPT !.pc = "while"]
    /\ UNCHANGED <<s, _owns_serial, responses, temp_readings, sentlines, stop_reading,
                   stop_printing, _buffer, _current_line_idx, _ok_received,
                   _resume_event, _disconnect_pending, _communication_lock,
                   _readline_futures, futures, _read_thread, caller, main,
                   wire, to_device, from_device, device, ghost, aerotech>>

\* The condition that ends
\*   while not self._ok_received.is_set() and not self.stop_printing:
\*       self._ok_received.wait(1)
ok_wait_over == _ok_received \/ stop_printing

P_ok_wait ==
    /\ _print_thread.pc = "ok_wait"
    /\ ok_wait_over
    /\ _print_thread' = [_print_thread EXCEPT !.pc = "next_line"]
    /\ UNCHANGED <<s, _owns_serial, responses, temp_readings, sentlines, printing, stop_reading,
                   stop_printing, _buffer, _current_line_idx, _ok_received,
                   _resume_event, _disconnect_pending, _communication_lock,
                   _readline_futures, futures, _read_thread, caller, main,
                   wire, to_device, from_device, device, ghost, aerotech>>

\* Python's list[i]: i in -len..len-1 is an element, anything else IndexError.
InRange(list, i) == -Len(list) <= i /\ i < Len(list)
Index(list, i) == IF i >= 0 THEN i ELSE Len(list) + i

\* History: the line now framed will be frame k of the wire, and is the
\* first framed since whoever is in pending set the cursor.
Framed(g, k) ==
    [g EXCEPT !.pending = {},
              !.rolled = IF "resend" \in g.pending THEN @ \cup {k} ELSE @,
              !.cleared = IF "clear" \in g.pending THEN @ \cup {k} ELSE @]

\* History: the line framed to be frame k of the wire was not written.
NotWritten(g, k) ==
    [g EXCEPT !.pending = @ \cup (IF k \in g.rolled THEN {"resend"} ELSE {})
                            \cup (IF k \in g.cleared THEN {"clear"} ELSE {}),
              !.rolled = @ \ {k},
              !.cleared = @ \ {k}]

\* line = self._next_line(); an IndexError ends the thread
P_next_line ==
    /\ _print_thread.pc = "next_line"
    /\ IF InRange(_buffer, _current_line_idx)
       THEN /\ _print_thread' = [_print_thread EXCEPT
                    !.pc = "write",
                    !.line = _next_line(_buffer, Index(_buffer, _current_line_idx))]
            /\ ghost' = Framed(ghost, Len(wire) + 1)
       ELSE /\ _print_thread' = [_print_thread EXCEPT !.pc = "exiting"]
            /\ ghost' = ghost
    /\ UNCHANGED <<s, _owns_serial, responses, temp_readings, sentlines, printing, stop_reading,
                   stop_printing, _buffer, _current_line_idx, _ok_received,
                   _resume_event, _disconnect_pending, _communication_lock,
                   _readline_futures, futures, _read_thread, caller, main,
                   wire, to_device, from_device, device, aerotech>>

\* with self._communication_lock: self.s.write(line)
\* (self.s is None, or a closed port, raises and ends the thread)
P_write ==
    /\ _print_thread.pc = "write"
    /\ _communication_lock = "free"
    /\ Len(wire) < MaxWire
    /\ IF IsPort(s)
       THEN /\ wire' = Append(wire, _print_thread.line)
            /\ to_device' = Append(to_device, _print_thread.line)
            /\ _communication_lock' = "print"
            /\ _print_thread' = [_print_thread EXCEPT !.pc = "clear"]
            /\ ghost' = [ghost EXCEPT !.inflight = @ + 1]
       ELSE /\ _print_thread' = [_print_thread EXCEPT !.pc = "exiting"]
            /\ ghost' = NotWritten(ghost, Len(wire) + 1)
            /\ UNCHANGED <<wire, to_device, _communication_lock, aerotech>>
    /\ UNCHANGED <<s, _owns_serial, responses, temp_readings, sentlines, printing, stop_reading,
                   stop_printing, _buffer, _current_line_idx, _ok_received,
                   _resume_event, _disconnect_pending,
                   _readline_futures, futures, _read_thread, caller, main,
                   from_device, device, aerotech>>

\* with self._communication_lock: self.s.write(line), and the write raises
\* (SerialTimeoutException after writeTimeout, SerialException): the lock is
\* released and the exception ends _print_worker
P_write_error ==
    /\ _print_thread.pc = "write"
    /\ _communication_lock = "free"
    /\ IsPort(s)
    /\ device.faults < MaxFaults
    /\ device' = [device EXCEPT !.faults = @ + 1]
    /\ _print_thread' = [_print_thread EXCEPT !.pc = "exiting"]
    /\ ghost' = [NotWritten(ghost, Len(wire) + 1) EXCEPT !.write_error = TRUE]
    /\ UNCHANGED <<s, _owns_serial, responses, sentlines, temp_readings,
                   printing, stop_reading, stop_printing, _buffer,
                   _current_line_idx, _ok_received, _resume_event,
                   _disconnect_pending, _communication_lock,
                   _readline_futures, futures, _read_thread, caller, main,
                   wire, to_device, from_device, aerotech>>

\* self._ok_received.clear()
P_clear ==
    /\ _print_thread.pc = "clear"
    /\ _ok_received' = FALSE
    /\ _print_thread' = [_print_thread EXCEPT !.pc = "inc_load"]
    /\ UNCHANGED <<s, _owns_serial, responses, temp_readings, sentlines, printing, stop_reading,
                   stop_printing, _buffer, _current_line_idx,
                   _resume_event, _disconnect_pending, _communication_lock,
                   _readline_futures, futures, _read_thread, caller, main,
                   wire, to_device, from_device, device, ghost, aerotech>>

\* self._current_line_idx += 1: the load ...
P_inc_load ==
    /\ _print_thread.pc = "inc_load"
    /\ _print_thread' = [_print_thread EXCEPT !.pc = "inc_store",
                                              !.tmp = _current_line_idx]
    /\ UNCHANGED <<s, _owns_serial, responses, temp_readings, sentlines, printing, stop_reading,
                   stop_printing, _buffer, _current_line_idx, _ok_received,
                   _resume_event, _disconnect_pending, _communication_lock,
                   _readline_futures, futures, _read_thread, caller, main,
                   wire, to_device, from_device, device, ghost, aerotech>>

\* A variant of the cursor update that stores the cursor it loaded: the
\* same line is framed again.
P_inc_store_same ==
    /\ _print_thread.pc = "inc_store"
    /\ _current_line_idx' = _print_thread.tmp
    /\ _communication_lock' = "free"
    /\ _print_thread' = [_print_thread EXCEPT !.pc = "sent", !.tmp = 0]
    /\ UNCHANGED <<s, _owns_serial, responses, temp_readings, sentlines, printing, stop_reading,
                   stop_printing, _buffer, _ok_received,
                   _resume_event, _disconnect_pending,
                   _readline_futures, futures, _read_thread, caller, main,
                   wire, to_device, from_device, device, ghost, aerotech>>

\* ... and the store, which ends the with block
\* A variant of the cursor update that skips a line: the cursor passes the
\* end of the buffer without every line being written.
P_inc_store_skip ==
    /\ _print_thread.pc = "inc_store"
    /\ _current_line_idx' = _print_thread.tmp + 2
    /\ _communication_lock' = "free"
    /\ _print_thread' = [_print_thread EXCEPT !.pc = "sent", !.tmp = 0]
    /\ UNCHANGED <<s, _owns_serial, responses, temp_readings, sentlines, printing, stop_reading,
                   stop_printing, _buffer, _ok_received,
                   _resume_event, _disconnect_pending,
                   _readline_futures, futures, _read_thread, caller, main,
                   wire, to_device, from_device, device, ghost, aerotech>>

P_inc_store ==
    /\ _print_thread.pc = "inc_store"
    /\ _current_line_idx' = _print_thread.tmp + 1
    /\ _communication_lock' = "free"
    /\ _print_thread' = [_print_thread EXCEPT !.pc = "sent", !.tmp = 0]
    /\ UNCHANGED <<s, _owns_serial, responses, temp_readings, sentlines, printing, stop_reading,
                   stop_printing, _buffer, _ok_received,
                   _resume_event, _disconnect_pending,
                   _readline_futures, futures, _read_thread, caller, main,
                   wire, to_device, from_device, device, ghost, aerotech>>

\* plain_line = self._buffer[self._current_line_idx - 1].strip()
\* self.sentlines.append(plain_line); an IndexError ends the thread
P_sent ==
    /\ _print_thread.pc = "sent"
    /\ IF InRange(_buffer, _current_line_idx - 1)
       THEN /\ sentlines' = Append(sentlines,
                    strip(_buffer[Index(_buffer, _current_line_idx - 1) + 1]))
            /\ _print_thread' = [_print_thread EXCEPT !.pc = "while", !.line = <<>>]
       ELSE /\ sentlines' = sentlines
            /\ _print_thread' = [_print_thread EXCEPT !.pc = "exiting", !.line = <<>>]
    /\ UNCHANGED <<s, _owns_serial, responses, temp_readings, printing, stop_reading,
                   stop_printing, _buffer, _current_line_idx, _ok_received,
                   _resume_event, _disconnect_pending, _communication_lock,
                   _readline_futures, futures, _read_thread, caller, main,
                   wire, to_device, from_device, device, ghost, aerotech>>

\* _print_worker_entrypoint returns (any exception was logged): the thread ends
P_exit ==
    /\ _print_thread.pc = "exiting"
    /\ _print_thread' = NewThread("dead")
    /\ UNCHANGED <<s, _owns_serial, responses, temp_readings, sentlines, printing, stop_reading,
                   stop_printing, _buffer, _current_line_idx, _ok_received,
                   _resume_event, _disconnect_pending, _communication_lock,
                   _readline_futures, futures, _read_thread, caller, main,
                   wire, to_device, from_device, device, ghost, aerotech>>

\* The sender of a print that is never paused.
Sender ==
    \/ P_while \/ P_if_paused \/ P_if_idx \/ P_idle
    \/ P_ok_wait \/ P_next_line \/ P_write \/ P_clear \/ P_inc_load
    \/ P_inc_store \/ P_sent \/ P_exit

(***************************************************************************)
(* Futures (concurrent.futures.Future), as far as the driver uses them.    *)
(*                                                                         *)
(* The clean-up loops of _read_worker_entrypoint delete from the table     *)
(* they iterate over.  What that does depends on the interpreter, and the  *)
(* driver is written for both: on Python 2 dict.items() is a list, a copy  *)
(* of the table, and the loop visits every entry ("list"); on Python 3 it  *)
(* is a view, and the loop raises RuntimeError ('dictionary changed size   *)
(* during iteration') once it has deleted the first entry ("view").        *)
(***************************************************************************)
\* futures.Future()
Future == [state |-> "PENDING", result |-> <<>>, exception |-> ""]

\* Future.done()
done(f) == f.state \in {"CANCELLED", "FINISHED"}

\* a table without the entry for linenum: self._readline_futures.pop(linenum, None)
pop(table, linenum) == [n \in DOMAIN table \ {linenum} |-> table[n]]

\* the futures held by the table
Held(table) == {table[n] : n \in DOMAIN table}

\* The first entry of a table that is not empty: a dict keeps the order of
\* insertion, and futures are numbered as they are made.
First(table) ==
    CHOOSE n \in DOMAIN table : \A m \in DOMAIN table : table[n] <= table[m]

\* for linenum, future in self._readline_futures.items(): ...
\*     del self._readline_futures[linenum]
\* the part of the table the loop gets through
Visited(table, items) ==
    IF items = "view" /\ DOMAIN table # {}
    THEN [n \in {First(table)} |-> table[n]]
    ELSE table

\* What items() may be when the loop begins: what it was found to be before,
\* nothing to tell apart for a table of less than two entries.
ItemsOf(table) ==
    IF _read_thread.items # "" THEN {_read_thread.items}
    ELSE IF Cardinality(DOMAIN table) >= 2 THEN {"list", "view"}
    ELSE {""}

\* the table without the entries of part
Without(table, part) == [n \in DOMAIN table \ DOMAIN part |-> table[n]]

\* The except clause of _read_worker_entrypoint, over the entries it visits:
\*   if not future.done(): future.set_exception(e)
reject_all(fs, table, e) ==
    [id \in DOMAIN fs |->
        IF id \in Held(table) /\ ~done(fs[id])
        THEN [state |-> "FINISHED", result |-> <<>>, exception |-> e]
        ELSE fs[id]]

\* The finally clause of _read_worker_entrypoint, over the entries it visits:
\*   if not future.done(): future.cancel()
cancel_all(fs, table) ==
    [id \in DOMAIN fs |->
        IF id \in Held(table) /\ ~done(fs[id])
        THEN [fs[id] EXCEPT !.state = "CANCELLED"]
        ELSE fs[id]]

(***************************************************************************)
(* Parsing what the device sends.                                          *)
(***************************************************************************)
\* the text up to the first whitespace character
RECURSIVE Word(_)
Word(str) ==
    IF str = <<>> \/ Head(str) \in Whitespace THEN <<>>
    ELSE <<Head(str)>> \o Word(Tail(str))

\* str.split(): the words between runs of whitespace
RECURSIVE split(_)
split(str) ==
    LET t == lstrip(str)
    IN  IF t = <<>> THEN <<>>
        ELSE <<Word(t)>> \o split(SubSeq(t, Len(Word(t)) + 1, Len(t)))

IsDigits(str) == str # <<>> /\ \A i \in 1..Len(str) : str[i] \in 48..57

\* int(str) for a run of decimal digits
RECURSIVE int(_)
int(str) ==
    IF Len(str) = 1 THEN str[1] - 48
    ELSE 10 * int(SubSeq(str, 1, Len(str) - 1)) + (str[Len(str)] - 48)

\* int(line.split()[1]) is defined (otherwise IndexError or ValueError)
ResendParses(line) == Len(split(line)) >= 2 /\ IsDigits(split(line)[2])

\* int(line.split()[1]) - 1: the cursor a resend request asks for
resend_idx(line) == int(split(line)[2]) - 1

(***************************************************************************)
(* The receiver thread: Printer._read_worker inside                        *)
(* _read_worker_entrypoint, one action per shared access.                  *)
(***************************************************************************)
\* while not self.stop_reading: if self.s is not None: ... else: sleep(0.01)
R_while ==
    /\ _read_thread.pc = "while"
    /\ stop_reading \/ s # "None"
    /\ _read_thread' = [_read_thread EXCEPT !.pc =
            IF stop_reading THEN "finally" ELSE "readline"]
    /\ UNCHANGED <<s, _owns_serial, responses, sentlines, temp_readings,
                   printing, stop_reading, stop_printing, _buffer,
                   _current_line_idx, _ok_received, _resume_event,
                   _disconnect_pending, _communication_lock,
                   _readline_futures, futures, _print_thread, caller, main,
                   wire, to_device, from_device, device, ghost, aerotech>>

\* A receiver that takes every whole line of the device for an acknowledgment.
AfterLine_every_line(line) ==
    IF startswith(line, RESEND) THEN "resend_idx"
    ELSE IF line # <<>> /\ ~HasChar(line, 10) THEN "midline"
    ELSE IF line # <<>> THEN "ok_set"
    ELSE "while"

\* Where the loop body goes with the line it has read: to the resend, to the
\* line cut short, to the acknowledgment ('ok' in line), or round the loop.
AfterLine(line) ==
    IF startswith(line, RESEND) THEN "resend_idx"
    ELSE IF line # <<>> /\ ~HasChar(line, 10) THEN "midline"
    ELSE IF Contains(line, OK) THEN "ok_set"
    ELSE "while"

\* line = self.s.readline(): the next line of the device, '' after the read
\* timeout; a port that is None or closed raises.  Then the part of the loop
\* body that touches nothing shared but temp_readings.
R_readline ==
    /\ _read_thread.pc = "readline"
    /\ IF ~IsPort(s)
       THEN /\ _read_thread' = [_read_thread EXCEPT !.pc = "except",
                        !.exc = IF s = "None" THEN "AttributeError" ELSE "SerialException"]
            /\ UNCHANGED <<from_device, temp_readings, aerotech>>
       ELSE LET line == IF from_device = <<>> THEN <<>> ELSE Head(from_device)
            IN  /\ from_device' = IF from_device = <<>> THEN <<>> ELSE Tail(from_device)
                /\ temp_readings' =
                        IF ~startswith(line, RESEND) /\ startswith(line, <<84, 58>>)
                        THEN Append(temp_readings, line) ELSE temp_readings
                /\ _read_thread' = [_read_thread EXCEPT
                        !.pc = AfterLine(line),
                        !.line = IF AfterLine(line) = "resend_idx" THEN line ELSE <<>>,
                        !.full_resp = IF startswith(line, RESEND) THEN @ ELSE @ \o line,
                        !.lines = IF line = <<>> THEN @ ELSE Append(@, line)]
    /\ UNCHANGED <<s, _owns_serial, responses, sentlines, printing,
                   stop_reading, stop_printing, _buffer, _current_line_idx,
                   _ok_received, _resume_event, _disconnect_pending,
                   _communication_lock, _readline_futures, futures,
                   _print_thread, caller, main, wire, to_device, device,
                   ghost, aerotech>>

\* self._current_line_idx = int(line.split()[1]) - 1
R_resend_idx ==
    /\ _read_thread.pc = "resend_idx"
    /\ IF ResendParses(_read_thread.line)
       THEN /\ _current_line_idx' = resend_idx(_read_thread.line)
            /\ _read_thread' = [_read_thread EXCEPT !.pc = "resend_set", !.line = <<>>]
            /\ ghost' = [ghost EXCEPT !.resend = resend_idx(_read_thread.line) + 1,
                                      !.resend_at = 0,
                                      !.pending = @ \cup {"resend"},
                                      !.resend_waiters =
                                          {c \in DOMAIN caller :
                                              /\ caller[c].pc = "gr_result"
                                              /\ futures[caller[c].future].state = "PENDING"}]
       ELSE /\ _current_line_idx' = _current_line_idx
            /\ _read_thread' = [_read_thread EXCEPT !.pc = "except", !.line = <<>>,
                                                    !.exc = "ValueError"]
            /\ ghost' = ghost
    /\ UNCHANGED <<s, _owns_serial, responses, sentlines, temp_readings,
                   printing, stop_reading, stop_printing, _buffer,
                   _ok_received, _resume_event, _disconnect_pending,
                   _communication_lock, _readline_futures, futures,
                   _print_thread, caller, main, wire, to_device,
                   from_device, device, aerotech>>

\* Where the loop goes after a resend request was handled.
after_resend == "finally"

\* with self._communication_lock: self._ok_received.set()
\* break
R_resend_set ==
    /\ _read_thread.pc = "resend_set"
    /\ _communication_lock = "free"
    /\ _ok_received' = TRUE
    /\ ghost' = [ghost EXCEPT !.inflight = 0, !.resend_at = Len(wire) + 1]
    /\ _read_thread' = [_read_thread EXCEPT !.pc = after_resend]
    /\ UNCHANGED <<s, _owns_serial, responses, sentlines, temp_readings,
                   printing, stop_reading, stop_printing, _buffer,
                   _current_line_idx, _resume_event, _disconnect_pending,
                   _communication_lock, _readline_futures, futures,
                   _print_thread, caller, main, wire, to_device,
                   from_device, device, aerotech>>

\* '\n' not in line: self.printing = False; self.stop_printing = True;
\* self.stop_reading = True
R_midline ==
    /\ _read_thread.pc = "midline"
    /\ printing' = FALSE
    /\ stop_printing' = TRUE
    /\ stop_reading' = TRUE
    /\ _read_thread' = [_read_thread EXCEPT !.pc = "midline_set"]
    /\ UNCHANGED <<s, _owns_serial, responses, sentlines, temp_readings,
                   _buffer, _current_line_idx, _ok_received, _resume_event,
                   _disconnect_pending, _communication_lock,
                   _readline_futures, futures, _print_thread, caller, main,
                   wire, to_device, from_device, device, ghost, aerotech>>

\* with self._communication_lock: self._ok_received.set()
\* raise RuntimeError(...)
R_midline_set ==
    /\ _read_thread.pc = "midline_set"
    /\ _communication_lock = "free"
    /\ _ok_received' = TRUE
    /\ ghost' = [ghost EXCEPT !.inflight = 0]
    /\ _read_thread' = [_read_thread EXCEPT !.pc = "except", !.exc = "RuntimeError"]
    /\ UNCHANGED <<s, _owns_serial, responses, sentlines, temp_readings,
                   printing, stop_reading, stop_printing, _buffer,
                   _current_line_idx, _resume_event, _disconnect_pending,
                   _communication_lock, _readline_futures, futures,
                   _print_thread, caller, main, wire, to_device,
                   from_device, device, aerotech>>

\* A receiver that does not set the ack flag.
R_ok_set_lost ==
    /\ _read_thread.pc = "ok_set"
    /\ _communication_lock = "free"
    /\ _read_thread' = [_read_thread EXCEPT !.pc = "future"]
    /\ UNCHANGED <<s, _owns_serial, responses, sentlines, temp_readings,
                   printing, stop_reading, stop_printing, _buffer,
                   _current_line_idx, _ok_received, _resume_event,
                   _disconnect_pending, _communication_lock,
                   _readline_futures, futures, _print_thread, caller, main,
                   wire, to_device, from_device, device, ghost, aerotech>>

\* 'ok' in line: with self._communication_lock: self._ok_received.set()
R_ok_set ==
    /\ _read_thread.pc = "ok_set"
    /\ _communication_lock = "free"
    /\ _ok_received' = TRUE
    /\ ghost' = [ghost EXCEPT !.inflight = 0]
    /\ _read_thread' = [_read_thread EXCEPT !.pc = "future"]
    /\ UNCHANGED <<s, _owns_serial, responses, sentlines, temp_readings,
                   printing, stop_reading, stop_printing, _buffer,
                   _current_line_idx, _resume_event, _disconnect_pending,
                   _communication_lock, _readline_futures, futures,
                   _print_thread, caller, main, wire, to_device,
                   from_device, device, aerotech>>

\* linenum = len(self.responses) + 1
\* _set_readline_result: future = self._readline_future(linenum)
\* (len(self.responses) >= linenum is false here: the table's future for
\* linenum, made now if there is none)
R_future ==
    /\ _read_thread.pc = "future"
    /\ LET linenum == Len(responses) + 1
       IN  IF linenum \in DOMAIN _readline_futures
           THEN /\ _read_thread' = [_read_thread EXCEPT
                        !.pc = "append", !.linenum = linenum,
                        !.future = _readline_futures[linenum]]
                /\ UNCHANGED <<futures, _readline_futures, aerotech>>
           ELSE /\ futures' = Append(futures, Future)
                /\ _readline_futures' =
                        [n \in DOMAIN _readline_futures \cup {linenum} |->
                            IF n = linenum THEN Len(futures) + 1
                            ELSE _readline_futures[n]]
                /\ _read_thread' = [_read_thread EXCEPT
                        !.pc = "append", !.linenum = linenum,
                        !.future = Len(futures) + 1]
    /\ UNCHANGED <<s, _owns_serial, responses, sentlines, temp_readings,
                   printing, stop_reading, stop_printing, _buffer,
                   _current_line_idx, _ok_received, _resume_event,
                   _disconnect_pending, _communication_lock, _print_thread,
                   caller, main, wire, to_device, from_device, device, ghost,
                   aerotech>>

\* _set_readline_result: self.responses.append(result)
R_append ==
    /\ _read_thread.pc = "append"
    /\ responses' = Append(responses, _read_thread.full_resp)
    /\ _read_thread' = [_read_thread EXCEPT !.pc = "resolve"]
    /\ UNCHANGED <<s, _owns_serial, sentlines, temp_readings, printing,
                   stop_reading, stop_printing, _buffer, _current_line_idx,
                   _ok_received, _resume_event, _disconnect_pending,
                   _communication_lock, _readline_futures, futures,
                   _print_thread, caller, main, wire, to_device,
                   from_device, device, ghost, aerotech>>

\* _set_readline_result:
\*   if future.set_running_or_notify_cancel(): future.set_result(result)
\* (a cancelled future is left alone; a finished one raises RuntimeError)
R_resolve ==
    /\ _read_thread.pc = "resolve"
    /\ LET f == futures[_read_thread.future]
       IN  CASE f.state = "PENDING" ->
                    /\ futures' = [futures EXCEPT ![_read_thread.future] =
                            [state |-> "FINISHED", result |-> _read_thread.full_resp,
                             exception |-> ""]]
                    /\ _read_thread' = [_read_thread EXCEPT !.pc = "pop"]
             [] f.state = "CANCELLED" ->
                    /\ futures' = futures
                    /\ _read_thread' = [_read_thread EXCEPT !.pc = "pop"]
             [] OTHER ->
                    /\ futures' = futures
                    /\ _read_thread' = [_read_thread EXCEPT !.pc = "except",
                                                            !.exc = "RuntimeError"]
    /\ UNCHANGED <<s, _owns_serial, responses, sentlines, temp_readings,
                   printing, stop_reading, stop_printing, _buffer,
                   _current_line_idx, _ok_received, _resume_event,
                   _disconnect_pending, _communication_lock,
                   _readline_futures, _print_thread, caller, main, wire,
                   to_device, from_device, device, ghost, aerotech>>

\* A receiver that keeps the text of a response it has completed.
R_pop_keeps_text ==
    /\ _read_thread.pc = "pop"
    /\ _readline_futures' = pop(_readline_futures, _read_thread.linenum)
    /\ _read_thread' = [_read_thread EXCEPT !.pc = "while", !.lines = <<>>,
                                            !.linenum = 0, !.future = 0]
    /\ UNCHANGED <<s, _owns_serial, responses, sentlines, temp_readings,
                   printing, stop_reading, stop_printing, _buffer,
                   _current_line_idx, _ok_received, _resume_event,
                   _disconnect_pending, _communication_lock, futures,
                   _print_thread, caller, main, wire, to_device,
                   from_device, device, ghost, aerotech>>

\* _set_readline_result:
\*   with self._readline_futures_lock: self._readline_futures.pop(linenum, None)
\* and back in _read_worker: full_resp = ''
R_pop ==
    /\ _read_thread.pc = "pop"
    /\ _readline_futures' = pop(_readline_futures, _read_thread.linenum)
    /\ _read_thread' = [_read_thread EXCEPT !.pc = "while", !.full_resp = <<>>,
                                            !.lines = <<>>,
                                            !.linenum = 0, !.future = 0]
    /\ UNCHANGED <<s, _owns_serial, responses, sentlines, temp_readings,
                   printing, stop_reading, stop_printing, _buffer,
                   _current_line_idx, _ok_received, _resume_event,
                   _disconnect_pending, _communication_lock, futures,
                   _print_thread, caller, main, wire, to_device,
                   from_device, device, ghost, aerotech>>

\* except BaseException: under the table's lock, every future the loop
\* visits that is not done gets the exception, and its entry is deleted
R_except ==
    /\ _read_thread.pc = "except"
    /\ \E items \in ItemsOf(_readline_futures) :
        LET part == Visited(_readline_futures, items)
        IN  /\ futures' = reject_all(futures, part, _read_thread.exc)
            /\ _readline_futures' = Without(_readline_futures, part)
            /\ _read_thread' = [_read_thread EXCEPT !.pc = "finally",
                                                    !.items = items]
    /\ ghost' = [ghost EXCEPT !.at_fault = Held(_readline_futures)]
    /\ UNCHANGED <<s, _owns_serial, responses, sentlines, temp_readings,
                   printing, stop_reading, stop_printing, _buffer,
                   _current_line_idx, _ok_received, _resume_event,
                   _disconnect_pending, _communication_lock, _print_thread,
                   caller, main, wire, to_device, from_device, device,
                   aerotech>>

\* finally: under the table's lock, every future the loop visits that is
\* not done is cancelled, and its entry is deleted
R_finally ==
    /\ _read_thread.pc = "finally"
    /\ \E items \in ItemsOf(_readline_futures) :
        LET part == Visited(_readline_futures, items)
        IN  /\ futures' = cancel_all(futures, part)
            /\ _readline_futures' = Without(_readline_futures, part)
            /\ _read_thread' = [_read_thread EXCEPT !.pc = "exiting",
                                                    !.items = items]
    /\ UNCHANGED <<s, _owns_serial, responses, sentlines, temp_readings,
                   printing, stop_reading, stop_printing, _buffer,
                   _current_line_idx, _ok_received, _resume_event,
                   _disconnect_pending, _communication_lock, _print_thread,
                   caller, main, wire, to_device, from_device, device, ghost,
                   aerotech>>

\* _read_worker_entrypoint has returned: the thread ends
R_exit ==
    /\ _read_thread.pc = "exiting"
    /\ _read_thread' = [NewReader("dead") EXCEPT !.exc = _read_thread.exc]
    /\ UNCHANGED <<s, _owns_serial, responses, sentlines, temp_readings,
                   printing, stop_reading, stop_printing, _buffer,
                   _current_line_idx, _ok_received, _resume_event,
                   _disconnect_pending, _communication_lock,
                   _readline_futures, futures, _print_thread, caller, main,
                   wire, to_device, from_device, device, ghost, aerotech>>

Receiver ==
    \/ R_while \/ R_readline \/ R_resend_idx \/ R_resend_set
    \/ R_midline \/ R_midline_set \/ R_ok_set \/ R_future \/ R_append \/ R_resolve
    \/ R_pop \/ R_except \/ R_finally \/ R_exit

(***************************************************************************)
(* Caller threads: Printer.sendline and Printer.get_response.              *)
(***************************************************************************)
Callers == {1, 2}

NoResult == [kind |-> "none", value |-> <<>>]
Return(value) == [kind |-> "return", value |-> value]
Raise(exception) == [kind |-> "raise", value |-> exception]

\* A caller thread that has calls left to make, each one of ops on one of lines.
IdleCaller(ops, lines, calls) ==
    [pc |-> "idle", ops |-> ops, lines |-> lines, calls |-> calls, op |-> "",
     line |-> <<>>,
     buf_len |-> 0, future |-> 0, timeout |-> FALSE, result |-> NoResult,
     rdead |-> FALSE, pending |-> FALSE]

\* A caller thread calls sendline(line) or get_response(line, timeout)
\* (timeout: whether one is given).
C_call(c) ==
    /\ caller[c].pc = "idle"
    /\ caller[c].calls > 0
    /\ \E op \in caller[c].ops, line \in caller[c].lines, timeout \in BOOLEAN :
        /\ op = "sendline" => ~timeout
        /\ caller' = [caller EXCEPT ![c] =
                [caller[c] EXCEPT
                    !.pc = IF op = "sendline" THEN "sl_check" ELSE "gr_len",
                    !.calls = @ - 1, !.op = op, !.line = line, !.buf_len = 0,
                    !.future = 0, !.timeout = timeout, !.result = NoResult,
                    !.rdead = ~_is_read_thread_running,
                    !.pending = _disconnect_pending]]
    /\ ghost' = [ghost EXCEPT !.timed_out = @ \ {c}, !.resend_waiters = @ \ {c}]
    /\ UNCHANGED <<s, _owns_serial, responses, sentlines, temp_readings,
                   printing, stop_reading, stop_printing, _buffer,
                   _current_line_idx, _ok_received, _resume_event,
                   _disconnect_pending, _communication_lock,
                   _readline_futures, futures, _print_thread, _read_thread,
                   main, wire, to_device, from_device, device, aerotech>>

\* get_response: buf_len = len(self._buffer) + 1
C_gr_len(c) ==
    /\ caller[c].pc = "gr_len"
    /\ caller' = [caller EXCEPT ![c].pc = "sl_check", ![c].buf_len = Len(_buffer) + 1]
    /\ UNCHANGED <<s, _owns_serial, responses, sentlines, temp_readings,
                   printing, stop_reading, stop_printing, _buffer,
                   _current_line_idx, _ok_received, _resume_event,
                   _disconnect_pending, _communication_lock,
                   _readline_futures, futures, _print_thread, _read_thread,
                   main, wire, to_device, from_device, device, ghost,
                   aerotech>>

\* Where a call goes when sendline has returned.
AfterSendline(c) ==
    IF caller[c].op = "sendline"
    THEN [caller[c] EXCEPT !.pc = "idle", !.result = Return(<<>>)]
    ELSE [caller[c] EXCEPT !.pc = "gr_future"]

\* A sendline that refuses nothing.
refused_never == FALSE

\* sendline: whether the call is refused
refused == _disconnect_pending

\* sendline: if self._disconnect_pending: raise RuntimeError(...)
\* and, when nothing is left of the line, the return
C_sl_check(c) ==
    /\ caller[c].pc = "sl_check"
    /\ caller' = [caller EXCEPT ![c] =
            IF refused
            THEN [caller[c] EXCEPT !.pc = "idle", !.result = Raise("RuntimeError")]
            ELSE IF sendline_text(caller[c].line) = <<>> THEN AfterSendline(c)
            ELSE [caller[c] EXCEPT !.pc = "sl_append"]]
    /\ UNCHANGED <<s, _owns_serial, responses, sentlines, temp_readings,
                   printing, stop_reading, stop_printing, _buffer,
                   _current_line_idx, _ok_received, _resume_event,
                   _disconnect_pending, _communication_lock,
                   _readline_futures, futures, _print_thread, _read_thread,
                   main, wire, to_device, from_device, device, ghost,
                   aerotech>>

\* sendline: self._buffer.append(line)
C_sl_append(c) ==
    /\ caller[c].pc = "sl_append"
    /\ _buffer' = Append(_buffer, sendline_text(caller[c].line))
    /\ caller' = [caller EXCEPT ![c] = AfterSendline(c)]
    /\ UNCHANGED <<s, _owns_serial, responses, sentlines, temp_readings,
                   printing, stop_reading, stop_printing, _current_line_idx,
                   _ok_received, _resume_event, _disconnect_pending,
                   _communication_lock, _readline_futures, futures,
                   _print_thread, _read_thread, main, wire, to_device,
                   from_device, device, ghost, aerotech>>

\* get_response: future = self._readline_future(buf_len), under the table's lock:
\* a resolved future when len(self.responses) >= linenum (self.responses[linenum]
\* is 0-based, and raises IndexError when linenum = len(self.responses)), else
\* the table's future for linenum, made now if there is none
C_gr_future(c) ==
    /\ caller[c].pc = "gr_future"
    /\ LET linenum == caller[c].buf_len
       IN  IF Len(responses) >= linenum
           THEN IF linenum < Len(responses)
                THEN /\ futures' = Append(futures,
                            [state |-> "FINISHED", result |-> responses[linenum + 1],
                             exception |-> ""])
                     /\ caller' = [caller EXCEPT ![c].pc = "gr_alive",
                                                 ![c].future = Len(futures) + 1]
                     /\ UNCHANGED _readline_futures
                ELSE /\ caller' = [caller EXCEPT ![c].pc = "idle",
                                                 ![c].result = Raise("IndexError")]
                     /\ UNCHANGED <<futures, _readline_futures, aerotech>>
           ELSE IF linenum \in DOMAIN _readline_futures
                THEN /\ caller' = [caller EXCEPT ![c].pc = "gr_alive",
                                                 ![c].future = _readline_futures[linenum]]
                     /\ UNCHANGED <<futures, _readline_futures, aerotech>>
                ELSE /\ futures' = Append(futures, Future)
                     /\ _readline_futures' =
                            [n \in DOMAIN _readline_futures \cup {linenum} |->
                                IF n = linenum THEN Len(futures) + 1
                                ELSE _readline_futures[n]]
                     /\ caller' = [caller EXCEPT ![c].pc = "gr_alive",
                                                 ![c].future = Len(futures) + 1]
    /\ UNCHANGED <<s, _owns_serial, responses, sentlines, temp_readings,
                   printing, stop_reading, stop_printing, _buffer,
                   _current_line_idx, _ok_received, _resume_event,
                   _disconnect_pending, _communication_lock, _print_thread,
                   _read_thread, main, wire, to_device, from_device, device,
                   ghost, aerotech>>

\* A get_response that blocks without looking at the receiver.
may_block_always == TRUE

\* get_response: whether the call goes on to block
may_block == _is_read_thread_running

\* get_response: if not self._is_read_thread_running(): raise RuntimeError(...)
C_gr_alive(c) ==
    /\ caller[c].pc = "gr_alive"
    /\ caller' = [caller EXCEPT ![c] =
            IF may_block
            THEN [caller[c] EXCEPT !.pc = "gr_result"]
            ELSE [caller[c] EXCEPT !.pc = "idle", !.result = Raise("RuntimeError")]]
    /\ UNCHANGED <<s, _owns_serial, responses, sentlines, temp_readings,
                   printing, stop_reading, stop_printing, _buffer,
                   _current_line_idx, _ok_received, _resume_event,
                   _disconnect_pending, _communication_lock,
                   _readline_futures, futures, _print_thread, _read_thread,
                   main, wire, to_device, from_device, device, ghost,
                   aerotech>>

\* get_response: what future.result(timeout) gives once the future is done:
\* the result, the exception the receiver set, or (cancelled) the RuntimeError
\* made from CancelledError
result_of(f) ==
    IF f.state = "CANCELLED" THEN Raise("RuntimeError")
    ELSE IF f.exception # "" THEN Raise(f.exception)
    ELSE Return(f.result)

\* get_response: resp = future.result(timeout) returns or raises
C_gr_result(c) ==
    /\ caller[c].pc = "gr_result"
    /\ done(futures[caller[c].future])
    /\ caller' = [caller EXCEPT ![c].pc = "idle",
                                ![c].result = result_of(futures[caller[c].future])]
    /\ UNCHANGED <<s, _owns_serial, responses, sentlines, temp_readings,
                   printing, stop_reading, stop_printing, _buffer,
                   _current_line_idx, _ok_received, _resume_event,
                   _disconnect_pending, _communication_lock,
                   _readline_futures, futures, _print_thread, _read_thread,
                   main, wire, to_device, from_device, device, ghost,
                   aerotech>>

\* A get_response that lets the timeout out.
on_timeout_raise == Raise("TimeoutError")

\* get_response: what futures.TimeoutError turns into
on_timeout == Return(<<>>)

\* get_response: future.result(timeout) raises futures.TimeoutError: the
\* timeout passed with the future still pending
C_gr_timeout(c) ==
    /\ caller[c].pc = "gr_result"
    /\ caller[c].timeout
    /\ ~done(futures[caller[c].future])
    /\ caller' = [caller EXCEPT ![c].pc = "idle", ![c].result = on_timeout]
    /\ ghost' = [ghost EXCEPT !.timed_out = @ \cup {c}]
    /\ UNCHANGED <<s, _owns_serial, responses, sentlines, temp_readings,
                   printing, stop_reading, stop_printing, _buffer,
                   _current_line_idx, _ok_received, _resume_event,
                   _disconnect_pending, _communication_lock,
                   _readline_futures, futures, _print_thread, _read_thread,
                   main, wire, to_device, from_device, device, aerotech>>

Caller(c) ==
    \/ C_call(c) \/ C_gr_len(c) \/ C_sl_check(c) \/ C_sl_append(c)
    \/ C_gr_future(c) \/ C_gr_alive(c) \/ C_gr_result(c) \/ C_gr_timeout(c)

\* A caller thread that only calls sendline.
CallerSendline(c) == C_call(c) \/ C_sl_check(c) \/ C_sl_append(c)

(***************************************************************************)
(* The main thread: Printer.connect, Printer.start, Printer.disconnect and *)
(* the paused setter.  One thread makes these calls, so                    *)
(* _connection_lock is never contended and is left out.                    *)
(***************************************************************************)
\* The main thread between two calls; program is the calls it has yet to make.
IdleMain(program) ==
    [pc |-> "idle", wait |-> FALSE, arg |-> "", buf_len |-> 0, program |-> program,
     exc |-> ""]

\* The main thread calls connect(s), connect(), start() or disconnect(wait).
M_call ==
    /\ main.pc = "idle"
    /\ main.program # <<>>
    /\ Head(main.program) \in {"connect", "connect()", "start", "disconnect"}
    /\ \E wait \in BOOLEAN :
        /\ wait => Head(main.program) = "disconnect"
        /\ main' = [pc |-> IF Head(main.program) = "connect()" THEN "connect"
                           ELSE Head(main.program),
                    wait |-> wait,
                    arg |-> IF Head(main.program) = "connect" THEN "s"
                            ELSE IF Head(main.program) = "connect()" THEN "None"
                            ELSE "",
                    buf_len |-> 0,
                    program |-> Tail(main.program),
                    exc |-> ""]
    /\ UNCHANGED <<s, _owns_serial, responses, sentlines, temp_readings,
                   printing, stop_reading, stop_printing, _buffer,
                   _current_line_idx, _ok_received, _resume_event,
                   _disconnect_pending, _communication_lock,
                   _readline_futures, futures, _print_thread, _read_thread,
                   caller, wire, to_device, from_device, device, ghost,
                   aerotech>>

\* The main thread sets Printer.paused: the setter clears or sets _resume_event.
M_paused ==
    /\ main.pc = "idle"
    /\ main.program # <<>>
    /\ Head(main.program) \in {"pause", "resume"}
    /\ _resume_event' = (Head(main.program) = "resume")
    /\ ghost' = IF Head(main.program) = "pause"
                THEN [ghost EXCEPT !.paused_wire = Len(wire),
                                   !.paused_idx = _current_line_idx]
                ELSE ghost
    /\ main' = IdleMain(Tail(main.program))
    /\ UNCHANGED <<s, _owns_serial, responses, sentlines, temp_readings,
                   printing, stop_reading, stop_printing, _buffer,
                   _current_line_idx, _ok_received, _disconnect_pending,
                   _communication_lock, _readline_futures, futures,
                   _print_thread, _read_thread, caller, wire, to_device,
                   from_device, device, aerotech>>

\* load_file's treatment of the lines of a file: strip(), cut at the first
\* ';', and the lines of which nothing is left dropped
RECURSIVE load_file(_)
load_file(file) ==
    IF file = <<>> THEN <<>>
    ELSE LET t == strip(Head(file))
             line == IF HasChar(t, 59) THEN SplitHead(t, 59) ELSE t
         IN  (IF line # <<>> THEN <<line>> ELSE <<>>) \o load_file(Tail(file))

\* The texts of at most n characters of alphabet.
RECURSIVE Texts(_, _)
Texts(alphabet, n) ==
    IF n = 0 THEN {<<>>}
    ELSE Texts(alphabet, n - 1)
            \cup {Append(t, c) : t \in Texts(alphabet, n - 1), c \in alphabet}

\* The files the main thread loads: one line, or 'G90' and one line, over
\* ' ', '1', ';', 'G' and a character above 127; the files of the tests; and
\* files with the line of reset_linenumber; and one with a line of
\* characters above 127 before 'G90'.
Files ==
    LET lines == Texts({32, 49, 59, 71, 233}, MaxLen)
    IN  {<<l>> : l \in lines} \cup {<<G90, l>> : l \in lines}
        \cup { <<M900, G90>>,
               <<NoNewLine, WithNewLine>>,
               <<M110N0, G90>>,
               <<G90, M110N0, G1, G90>>,
               <<<<233, 49>>, G90>> }

\* The main thread calls load_file(filepath): self._buffer.extend(lines)
M_load_file ==
    /\ main.pc = "idle"
    /\ main.program # <<>>
    /\ Head(main.program) = "load_file"
    /\ \E file \in Files : _buffer' = _buffer \o load_file(file)
    /\ main' = IdleMain(Tail(main.program))
    /\ UNCHANGED <<s, _owns_serial, responses, sentlines, temp_readings,
                   printing, stop_reading, stop_printing, _current_line_idx,
                   _ok_received, _resume_event, _disconnect_pending,
                   _communication_lock, _readline_futures, futures,
                   _print_thread, _read_thread, caller, wire, to_device,
                   from_device, device, ghost, aerotech>>

\* The start message of the device, which it sends when its port is opened:
\* a line with 'ok' in it.
Hello == OK \o <<32, 48, 10>>

\* connect(): self.s = serial.Serial(self.port, self.baudrate, timeout=3)
M_connect_open ==
    /\ main.pc = "connect"
    /\ main.arg = "None"
    /\ s' = "Serial"
    /\ from_device' = Append(from_device, Hello)
    /\ main' = [main EXCEPT !.pc = "connect_ok"]
    /\ UNCHANGED <<_owns_serial, responses, sentlines, temp_readings,
                   printing, stop_reading, stop_printing, _buffer,
                   _current_line_idx, _ok_received, _resume_event,
                   _disconnect_pending, _communication_lock,
                   _readline_futures, futures, _print_thread, _read_thread,
                   caller, wire, to_device, device, ghost, aerotech>>

\* connect(s): self.s = s; self._owns_serial = False
M_connect_s ==
    /\ main.pc = "connect"
    /\ main.arg = "s"
    /\ s' = "open"
    /\ _owns_serial' = FALSE
    /\ main' = [main EXCEPT !.pc = "connect_ok"]
    /\ UNCHANGED <<responses, sentlines, temp_readings, printing,
                   stop_reading, stop_printing, _buffer, _current_line_idx,
                   _ok_received, _resume_event, _disconnect_pending,
                   _communication_lock, _readline_futures, futures,
                   _print_thread, _read_thread, caller, wire, to_device,
                   from_device, device, ghost, aerotech>>

\* connect: self._ok_received.set()
M_connect_ok ==
    /\ main.pc = "connect_ok"
    /\ _ok_received' = TRUE
    /\ main' = [main EXCEPT !.pc = "connect_idx"]
    /\ UNCHANGED <<s, _owns_serial, responses, sentlines, temp_readings,
                   printing, stop_reading, stop_printing, _buffer,
                   _current_line_idx, _resume_event, _disconnect_pending,
                   _communication_lock, _readline_futures, futures,
                   _print_thread, _read_thread, caller, wire, to_device,
                   from_device, device, ghost, aerotech>>

\* connect: self._current_line_idx = 0
M_connect_idx ==
    /\ main.pc = "connect_idx"
    /\ _current_line_idx' = 0
    /\ ghost' = [ghost EXCEPT !.pending = @ \cup {"clear"}]
    /\ main' = [main EXCEPT !.pc = "connect_buffer"]
    /\ UNCHANGED <<s, _owns_serial, responses, sentlines, temp_readings,
                   printing, stop_reading, stop_printing, _buffer,
                   _ok_received, _resume_event, _disconnect_pending,
                   _communication_lock, _readline_futures, futures,
                   _print_thread, _read_thread, caller, wire, to_device,
                   from_device, device, aerotech>>

\* connect: self._buffer = []
M_connect_buffer ==
    /\ main.pc = "connect_buffer"
    /\ _buffer' = <<>>
    /\ main' = [main EXCEPT !.pc = "connect_responses"]
    /\ UNCHANGED <<s, _owns_serial, responses, sentlines, temp_readings,
                   printing, stop_reading, stop_printing, _current_line_idx,
                   _ok_received, _resume_event, _disconnect_pending,
                   _communication_lock, _readline_futures, futures,
                   _print_thread, _read_thread, caller, wire, to_device,
                   from_device, device, ghost, aerotech>>

\* connect: self.responses = []
M_connect_responses ==
    /\ main.pc = "connect_responses"
    /\ responses' = <<>>
    /\ main' = [main EXCEPT !.pc = "connect_sentlines"]
    /\ UNCHANGED <<s, _owns_serial, sentlines, temp_readings, printing,
                   stop_reading, stop_printing, _buffer, _current_line_idx,
                   _ok_received, _resume_event, _disconnect_pending,
                   _communication_lock, _readline_futures, futures,
                   _print_thread, _read_thread, caller, wire, to_device,
                   from_device, device, ghost, aerotech>>

\* connect: self.sentlines = []
M_connect_sentlines ==
    /\ main.pc = "connect_sentlines"
    /\ sentlines' = <<>>
    /\ main' = [main EXCEPT !.pc = "connect_pending"]
    /\ UNCHANGED <<s, _owns_serial, responses, temp_readings, printing,
                   stop_reading, stop_printing, _buffer, _current_line_idx,
                   _ok_received, _resume_event, _disconnect_pending,
                   _communication_lock, _readline_futures, futures,
                   _print_thread, _read_thread, caller, wire, to_device,
                   from_device, device, ghost, aerotech>>

\* connect: self._disconnect_pending = False
M_connect_pending ==
    /\ main.pc = "connect_pending"
    /\ _disconnect_pending' = FALSE
    /\ main' = [main EXCEPT !.pc = "connect_start_read"]
    /\ UNCHANGED <<s, _owns_serial, responses, sentlines, temp_readings,
                   printing, stop_reading, stop_printing, _buffer,
                   _current_line_idx, _ok_received, _resume_event,
                   _communication_lock, _readline_futures, futures,
                   _print_thread, _read_thread, caller, wire, to_device,
                   from_device, device, ghost, aerotech>>

\* A start() that takes back a disconnect request.
M_start_read_thread_clears ==
    /\ main.pc \in {"connect_start_read", "start"}
    /\ IF _is_read_thread_running
       THEN UNCHANGED <<stop_reading, _read_thread, caller, aerotech>>
       ELSE /\ stop_reading' = FALSE
            /\ _read_thread' = NewReader("while")
            /\ caller' = [c \in DOMAIN caller |-> [caller[c] EXCEPT !.rdead = FALSE]]
    /\ _disconnect_pending' = (_disconnect_pending /\ main.pc # "start")
    /\ main' = IF main.pc = "start" THEN [main EXCEPT !.pc = "start_print"]
               ELSE IF main.arg = "None" THEN [main EXCEPT !.pc = "connect_wait"]
               ELSE IdleMain(main.program)
    /\ UNCHANGED <<s, _owns_serial, responses, sentlines, temp_readings,
                   printing, stop_printing, _buffer, _current_line_idx,
                   _ok_received, _resume_event,
                   _communication_lock, _readline_futures, futures,
                   _print_thread, wire, to_device, from_device, device,
                   ghost, aerotech>>

\* _start_read_thread, called by connect and by start: nothing when the
\* thread is alive, else self.stop_reading = False and a new thread
M_start_read_thread ==
    /\ main.pc \in {"connect_start_read", "start"}
    /\ IF _is_read_thread_running
       THEN UNCHANGED <<stop_reading, _read_thread, caller, aerotech>>
       ELSE /\ stop_reading' = FALSE
            /\ _read_thread' = NewReader("while")
            /\ caller' = [c \in DOMAIN caller |-> [caller[c] EXCEPT !.rdead = FALSE]]
    /\ main' = IF main.pc = "start" THEN [main EXCEPT !.pc = "start_print"]
               ELSE IF main.arg = "None" THEN [main EXCEPT !.pc = "connect_wait"]
               ELSE IdleMain(main.program)
    /\ UNCHANGED <<s, _owns_serial, responses, sentlines, temp_readings,
                   printing, stop_printing, _buffer, _current_line_idx,
                   _ok_received, _resume_event, _disconnect_pending,
                   _communication_lock, _readline_futures, futures,
                   _print_thread, wire, to_device, from_device, device,
                   ghost, aerotech>>

\* connect(): while len(self.responses) == 0: sleep(0.01) ends
M_connect_wait ==
    /\ main.pc = "connect_wait"
    /\ Len(responses) # 0
    /\ main' = [main EXCEPT !.pc = "connect_clear"]
    /\ UNCHANGED <<s, _owns_serial, responses, sentlines, temp_readings,
                   printing, stop_reading, stop_printing, _buffer,
                   _current_line_idx, _ok_received, _resume_event,
                   _disconnect_pending, _communication_lock,
                   _readline_futures, futures, _print_thread, _read_thread,
                   caller, wire, to_device, from_device, device, ghost,
                   aerotech>>

\* connect(): self.responses = []
M_connect_clear ==
    /\ main.pc = "connect_clear"
    /\ responses' = <<>>
    /\ main' = IdleMain(main.program)
    /\ UNCHANGED <<s, _owns_serial, sentlines, temp_readings, printing,
                   stop_reading, stop_printing, _buffer, _current_line_idx,
                   _ok_received, _resume_event, _disconnect_pending,
                   _communication_lock, _readline_futures, futures,
                   _print_thread, _read_thread, caller, wire, to_device,
                   from_device, device, ghost, aerotech>>

\* A _start_print_thread that makes a thread whenever it is called.
M_start_print_thread_anew ==
    /\ main.pc = "start_print"
    /\ printing' = TRUE
    /\ stop_printing' = FALSE
    /\ _print_thread' = NewThread("while")
    /\ main' = IdleMain(main.program)
    /\ UNCHANGED <<s, _owns_serial, responses, sentlines, temp_readings,
                   stop_reading, _buffer, _current_line_idx, _ok_received,
                   _resume_event, _disconnect_pending, _communication_lock,
                   _readline_futures, futures, _read_thread, caller, wire,
                   to_device, from_device, device, ghost, aerotech>>

\* _start_print_thread, called by start: nothing when the thread is alive,
\* else self.printing = True, self.stop_printing = False and a new thread
M_start_print_thread ==
    /\ main.pc = "start_print"
    /\ IF _is_print_thread_running
       THEN UNCHANGED <<printing, stop_printing, _print_thread, aerotech>>
       ELSE /\ printing' = TRUE
            /\ stop_printing' = FALSE
            /\ _print_thread' = NewThread("while")
    /\ main' = IdleMain(main.program)
    /\ UNCHANGED <<s, _owns_serial, responses, sentlines, temp_readings,
                   stop_reading, _buffer, _current_line_idx, _ok_received,
                   _resume_event, _disconnect_pending, _communication_lock,
                   _readline_futures, futures, _read_thread, caller, wire,
                   to_device, from_device, device, ghost, aerotech>>

\* disconnect: self._disconnect_pending = True
M_disc_pending ==
    /\ main.pc = "disconnect"
    /\ _disconnect_pending' = TRUE
    /\ main' = [main EXCEPT !.pc = IF main.wait THEN "disc_buf_len"
                                   ELSE "disc_stop_printing"]
    /\ UNCHANGED <<s, _owns_serial, responses, sentlines, temp_readings,
                   printing, stop_reading, stop_printing, _buffer,
                   _current_line_idx, _ok_received, _resume_event,
                   _communication_lock, _readline_futures, futures,
                   _print_thread, _read_thread, caller, wire, to_device,
                   from_device, device, ghost, aerotech>>

\* disconnect(wait=True): buf_len = len(self._buffer)
M_disc_buf_len ==
    /\ main.pc = "disc_buf_len"
    /\ main' = [main EXCEPT !.pc = "disc_wait", !.buf_len = Len(_buffer)]
    /\ UNCHANGED <<s, _owns_serial, responses, sentlines, temp_readings,
                   printing, stop_reading, stop_printing, _buffer,
                   _current_line_idx, _ok_received, _resume_event,
                   _disconnect_pending, _communication_lock,
                   _readline_futures, futures, _print_thread, _read_thread,
                   caller, wire, to_device, from_device, device, ghost,
                   aerotech>>

\* A disconnect(wait=True) that does not wait.
M_disc_wait_at_once ==
    /\ main.pc = "disc_wait"
    /\ main' = [main EXCEPT !.pc = "disc_stop_printing"]
    /\ UNCHANGED <<s, _owns_serial, responses, sentlines, temp_readings,
                   printing, stop_reading, stop_printing, _buffer,
                   _current_line_idx, _ok_received, _resume_event,
                   _disconnect_pending, _communication_lock,
                   _readline_futures, futures, _print_thread, _read_thread,
                   caller, wire, to_device, from_device, device, ghost,
                   aerotech>>

\* disconnect(wait=True): the loop
\*   while buf_len > len(self.responses) and self._is_read_thread_running():
\* ends
M_disc_wait ==
    /\ main.pc = "disc_wait"
    /\ ~(main.buf_len > Len(responses) /\ _is_read_thread_running)
    /\ main' = [main EXCEPT !.pc = "disc_stop_printing"]
    /\ UNCHANGED <<s, _owns_serial, responses, sentlines, temp_readings,
                   printing, stop_reading, stop_printing, _buffer,
                   _current_line_idx, _ok_received, _resume_event,
                   _disconnect_pending, _communication_lock,
                   _readline_futures, futures, _print_thread, _read_thread,
                   caller, wire, to_device, from_device, device, ghost,
                   aerotech>>

\* disconnect: if self._print_thread is not None: self.stop_printing = True
M_disc_stop_printing ==
    /\ main.pc = "disc_stop_printing"
    /\ IF _print_thread.pc # "None"
       THEN /\ stop_printing' = TRUE
            /\ main' = [main EXCEPT !.pc = "disc_join_print"]
       ELSE /\ stop_printing' = stop_printing
            /\ main' = [main EXCEPT !.pc = "disc_stop_reading"]
    /\ UNCHANGED <<s, _owns_serial, responses, sentlines, temp_readings,
                   printing, stop_reading, _buffer, _current_line_idx,
                   _ok_received, _resume_event, _disconnect_pending,
                   _communication_lock, _readline_futures, futures,
                   _print_thread, _read_thread, caller, wire, to_device,
                   from_device, device, ghost, aerotech>>

\* disconnect: timeout = 5 if self.s is None else self.s.writeTimeout + 1
\* raises TypeError on the port connect() made: serial.Serial was given no
\* write timeout, and its writeTimeout is None.
M_disc_raise ==
    /\ main.pc = "disc_join_print"
    /\ s = "Serial"
    /\ main' = [IdleMain(main.program) EXCEPT !.exc = "TypeError"]
    /\ UNCHANGED <<s, _owns_serial, responses, sentlines, temp_readings,
                   printing, stop_reading, stop_printing, _buffer,
                   _current_line_idx, _ok_received, _resume_event,
                   _disconnect_pending, _communication_lock,
                   _readline_futures, futures, _print_thread, _read_thread,
                   caller, wire, to_device, from_device, device, ghost,
                   aerotech>>

\* disconnect: self._print_thread.join(timeout) returns: the thread has
\* ended, or the timeout passed.  Every wait of the sender but
\* _resume_event.wait() is shorter than the timeout.
M_disc_join_print ==
    /\ main.pc = "disc_join_print"
    /\ s # "Serial"
    /\ \/ ~_is_print_thread_running
       \/ _print_thread.pc = "resume_wait" /\ ~_resume_event
    /\ main' = [main EXCEPT !.pc = "disc_stop_reading"]
    /\ UNCHANGED <<s, _owns_serial, responses, sentlines, temp_readings,
                   printing, stop_reading, stop_printing, _buffer,
                   _current_line_idx, _ok_received, _resume_event,
                   _disconnect_pending, _communication_lock,
                   _readline_futures, futures, _print_thread, _read_thread,
                   caller, wire, to_device, from_device, device, ghost,
                   aerotech>>

\* disconnect: if self._read_thread is not None: self.stop_reading = True
M_disc_stop_reading ==
    /\ main.pc = "disc_stop_reading"
    /\ IF _read_thread.pc # "None"
       THEN /\ stop_reading' = TRUE
            /\ main' = [main EXCEPT !.pc = "disc_join_read"]
       ELSE /\ stop_reading' = stop_reading
            /\ main' = [main EXCEPT !.pc = "disc_close"]
    /\ UNCHANGED <<s, _owns_serial, responses, sentlines, temp_readings,
                   printing, stop_printing, _buffer, _current_line_idx,
                   _ok_received, _resume_event, _disconnect_pending,
                   _communication_lock, _readline_futures, futures,
                   _print_thread, _read_thread, caller, wire, to_device,
                   from_device, device, ghost, aerotech>>

\* disconnect: self._read_thread.join(timeout) returns: the thread has ended
\* (every wait of the receiver is shorter than the timeout)
M_disc_join_read ==
    /\ main.pc = "disc_join_read"
    /\ ~_is_read_thread_running
    /\ main' = [main EXCEPT !.pc = "disc_close"]
    /\ UNCHANGED <<s, _owns_serial, responses, sentlines, temp_readings,
                   printing, stop_reading, stop_printing, _buffer,
                   _current_line_idx, _ok_received, _resume_event,
                   _disconnect_pending, _communication_lock,
                   _readline_futures, futures, _print_thread, _read_thread,
                   caller, wire, to_device, from_device, device, ghost,
                   aerotech>>

\* disconnect: if self.s is not None and self._owns_serial is True:
\*     self.s.close(); self.s = None
M_disc_close ==
    /\ main.pc = "disc_close"
    /\ s' = IF s # "None" /\ _owns_serial THEN "None" ELSE s
    /\ main' = [main EXCEPT !.pc = "disc_printing"]
    /\ UNCHANGED <<_owns_serial, responses, sentlines, temp_readings,
                   printing, stop_reading, stop_printing, _buffer,
                   _current_line_idx, _ok_received, _resume_event,
                   _disconnect_pending, _communication_lock,
                   _readline_futures, futures, _print_thread, _read_thread,
                   caller, wire, to_device, from_device, device, ghost,
                   aerotech>>

\* disconnect: self.printing = False
M_disc_printing ==
    /\ main.pc = "disc_printing"
    /\ printing' = FALSE
    /\ main' = [main EXCEPT !.pc = "disc_idx"]
    /\ UNCHANGED <<s, _owns_serial, responses, sentlines, temp_readings,
                   stop_reading, stop_printing, _buffer, _current_line_idx,
                   _ok_received, _resume_event, _disconnect_pending,
                   _communication_lock, _readline_futures, futures,
                   _print_thread, _read_thread, caller, wire, to_device,
                   from_device, device, ghost, aerotech>>

\* disconnect: self._current_line_idx = 0
M_disc_idx ==
    /\ main.pc = "disc_idx"
    /\ _current_line_idx' = 0
    /\ ghost' = [ghost EXCEPT !.pending = @ \cup {"clear"}]
    /\ main' = [main EXCEPT !.pc = "disc_buffer"]
    /\ UNCHANGED <<s, _owns_serial, responses, sentlines, temp_readings,
                   printing, stop_reading, stop_printing, _buffer,
                   _ok_received, _resume_event, _disconnect_pending,
                   _communication_lock, _readline_futures, futures,
                   _print_thread, _read_thread, caller, wire, to_device,
                   from_device, device, aerotech>>

\* disconnect: self._buffer = []
M_disc_buffer ==
    /\ main.pc = "disc_buffer"
    /\ _buffer' = <<>>
    /\ main' = [main EXCEPT !.pc = "disc_responses"]
    /\ UNCHANGED <<s, _owns_serial, responses, sentlines, temp_readings,
                   printing, stop_reading, stop_printing, _current_line_idx,
                   _ok_received, _resume_event, _disconnect_pending,
                   _communication_lock, _readline_futures, futures,
                   _print_thread, _read_thread, caller, wire, to_device,
                   from_device, device, ghost, aerotech>>

\* A disconnect that keeps the response log.
M_disc_responses_kept ==
    /\ main.pc = "disc_responses"
    /\ main' = [main EXCEPT !.pc = "disc_sentlines"]
    /\ UNCHANGED <<s, _owns_serial, responses, sentlines, temp_readings,
                   printing, stop_reading, stop_printing, _buffer,
                   _current_line_idx, _ok_received, _resume_event,
                   _disconnect_pending, _communication_lock,
                   _readline_futures, futures, _print_thread, _read_thread,
                   caller, wire, to_device, from_device, device, ghost,
                   aerotech>>

\* disconnect: self.responses = []
M_disc_responses ==
    /\ main.pc = "disc_responses"
    /\ responses' = <<>>
    /\ main' = [main EXCEPT !.pc = "disc_sentlines"]
    /\ UNCHANGED <<s, _owns_serial, sentlines, temp_readings, printing,
                   stop_reading, stop_printing, _buffer, _current_line_idx,
                   _ok_received, _resume_event, _disconnect_pending,
                   _communication_lock, _readline_futures, futures,
                   _print_thread, _read_thread, caller, wire, to_device,
                   from_device, device, ghost, aerotech>>

\* disconnect: self.sentlines = []
M_disc_sentlines ==
    /\ main.pc = "disc_sentlines"
    /\ sentlines' = <<>>
    /\ main' = IdleMain(main.program)
    /\ UNCHANGED <<s, _owns_serial, responses, temp_readings, printing,
                   stop_reading, stop_printing, _buffer, _current_line_idx,
                   _ok_received, _resume_event, _disconnect_pending,
                   _communication_lock, _readline_futures, futures,
                   _print_thread, _read_thread, caller, wire, to_device,
                   from_device, device, ghost, aerotech>>

\* A main thread that calls connect and start.
MainStart ==
    \/ M_call \/ M_connect_s \/ M_connect_ok \/ M_connect_idx
    \/ M_connect_buffer \/ M_connect_responses \/ M_connect_sentlines
    \/ M_connect_pending \/ M_start_read_thread \/ M_start_print_thread

\* A main thread that calls connect, start and disconnect.
Main ==
    \/ MainStart
    \/ M_disc_pending \/ M_disc_buf_len \/ M_disc_wait \/ M_disc_stop_printing
    \/ M_disc_join_print \/ M_disc_stop_reading \/ M_disc_join_read
    \/ M_disc_close \/ M_disc_printing \/ M_disc_idx \/ M_disc_buffer
    \/ M_disc_responses \/ M_disc_sentlines

(***************************************************************************)
(* The device at the other end of the port.  It takes one frame at a time  *)
(* and answers it: with its data and a line that carries 'ok' and the      *)
(* count of the frames it has taken (which frame the answer is to), or     *)
(* with a resend request for the frame's line number.                      *)
(***************************************************************************)
\* the line number of a frame 'N<seq> <text>*<checksum>\n'
FrameSeq(frame) == int(Word(Tail(frame)))

\* the position of the last '*' of a frame
LastStar(frame) ==
    CHOOSE i \in 1..Len(frame) :
        /\ frame[i] = 42
        /\ \A j \in (i + 1)..Len(frame) : frame[j] # 42

\* the command text of a frame
FrameText(frame) == SubSeq(frame, Len(Word(frame)) + 2, LastStar(frame) - 1)

\* the checksum a frame carries
FrameChecksum(frame) == int(SubSeq(frame, LastStar(frame) + 1, Len(frame) - 1))

\* 'ok <k>\n'
OkLine(k) == OK \o <<32>> \o format(k) \o <<10>>

\* The answer to the k-th frame: an M114 gets a position report first.
Answer(frame, k) ==
    IF startswith(FrameText(frame), M114)
    THEN << <<88, 58>> \o format(k) \o <<10>>, OkLine(k) >>
    ELSE << OkLine(k) >>

\* the frame of the answer a response is: the <k> after its 'ok '
RECURSIVE AnswerTo(_)
AnswerTo(resp) ==
    IF Len(resp) < 4 THEN 0
    ELSE IF startswith(resp, OK \o <<32>>) THEN int(Word(SubSeq(resp, 4, Len(resp))))
    ELSE AnswerTo(Tail(resp))

\* The device takes a frame and acknowledges it.
D_ack ==
    /\ to_device # <<>>
    /\ to_device' = Tail(to_device)
    /\ from_device' = from_device \o Answer(Head(to_device), device.seen + 1)
    /\ device' = [device EXCEPT !.seen = @ + 1, !.acked = Append(@, device.seen + 1)]
    /\ UNCHANGED <<s, _owns_serial, responses, sentlines, temp_readings,
                   printing, stop_reading, stop_printing, _buffer,
                   _current_line_idx, _ok_received, _resume_event,
                   _disconnect_pending, _communication_lock,
                   _readline_futures, futures, _print_thread, _read_thread,
                   caller, main, wire, ghost, aerotech>>

\* The device takes a frame it cannot accept and asks for it again.
D_resend ==
    /\ to_device # <<>>
    /\ device.faults < MaxFaults
    /\ FrameSeq(Head(to_device)) >= 1
    /\ to_device' = Tail(to_device)
    /\ from_device' = Append(from_device,
            RESEND \o format(FrameSeq(Head(to_device))) \o <<10>>)
    /\ device' = [device EXCEPT !.seen = @ + 1, !.faults = @ + 1]
    /\ UNCHANGED <<s, _owns_serial, responses, sentlines, temp_readings,
                   printing, stop_reading, stop_printing, _buffer,
                   _current_line_idx, _ok_received, _resume_event,
                   _disconnect_pending, _communication_lock,
                   _readline_futures, futures, _print_thread, _read_thread,
                   caller, main, wire, ghost, aerotech>>

\* The device takes a frame, and the answer it begins does not arrive whole
\* before the read timeout: readline returns 'o', without the line's end.
D_cut ==
    /\ to_device # <<>>
    /\ device.faults < MaxFaults
    /\ to_device' = Tail(to_device)
    /\ from_device' = Append(from_device, <<111>>)
    /\ device' = [device EXCEPT !.seen = @ + 1, !.faults = @ + 1]
    /\ UNCHANGED <<s, _owns_serial, responses, sentlines, temp_readings,
                   printing, stop_reading, stop_printing, _buffer,
                   _current_line_idx, _ok_received, _resume_event,
                   _disconnect_pending, _communication_lock,
                   _readline_futures, futures, _print_thread, _read_thread,
                   caller, main, wire, ghost, aerotech>>

\* 'T:1\n': a temperature report
TempLine == <<84, 58, 49, 10>>

\* The device sends a temperature report of its own accord.
D_temp ==
    /\ IsPort(s)
    /\ device.reports < MaxReports
    /\ from_device' = Append(from_device, TempLine)
    /\ device' = [device EXCEPT !.reports = @ + 1]
    /\ UNCHANGED <<s, _owns_serial, responses, sentlines, temp_readings,
                   printing, stop_reading, stop_printing, _buffer,
                   _current_line_idx, _ok_received, _resume_event,
                   _disconnect_pending, _communication_lock,
                   _readline_futures, futures, _print_thread, _read_thread,
                   caller, main, wire, to_device, ghost, aerotech>>

Device == D_ack \/ D_resend \/ D_cut

(***************************************************************************)
(* AerotechPrinter: the driver of a controller behind a TCP socket.  It    *)
(* has no threads: a call runs to its end before the next one begins.  The *)
(* socket and its read file are the objects the constructor is given, as   *)
(* in the tests; the peer answers every line it receives with one line,    *)
(* '%<k>\n' or '!<k>\n' for the k-th line, until it closes the connection, *)
(* after which readline returns '' once the answers are read.              *)
(***************************************************************************)
\* AerotechPrinter.EOS
EOS == <<10>>

\* AerotechPrinter.SUCCESS_RESPONSE
SUCCESS_RESPONSE == <<37>>

\* AerotechPrinter(host, port, sock, readfile) and connect()
AerotechPrinter ==
    [_lines_sent_without_reading |-> 0, sendall |-> <<>>, readfile |-> <<>>,
     closed |-> FALSE, calls |-> 0, op |-> "", result |-> NoResult]

\* AerotechPrinter.sendline(line) on printer p, and the peer's answer, if
\* the peer is still there, ok telling whether it is a success
sendline(p, line, ok) ==
    LET sent == IF Len(line) >= 1 /\ SubSeq(line, Len(line), Len(line)) = EOS
                THEN line ELSE line \o EOS
        k == Len(p.sendall) + 1
        answer == (IF ok THEN SUCCESS_RESPONSE ELSE <<33>>) \o <<48 + k>> \o EOS
    IN  [p EXCEPT !.sendall = Append(@, sent),
                  !.readfile = IF p.closed THEN @ ELSE Append(@, answer),
                  !._lines_sent_without_reading = @ + 1]

\* The loop of _read_to_current_line with n lines unread, file still to be
\* read and line the last line read:
\*   while self._lines_sent_without_reading > 0: line = readline() ...
RECURSIVE readlines(_, _, _)
readlines(n, file, line) ==
    IF n <= 0 THEN [n |-> n, readfile |-> file, line |-> line, exc |-> ""]
    ELSE IF file = <<>>
    THEN [n |-> n, readfile |-> file, line |-> <<>>,
          exc |-> "RuntimeError: end of file reached"]
    ELSE readlines(n - 1, Tail(file), Head(file))

\* A read that takes one line, however many lines are unread.
_read_one_line(p) ==
    IF p._lines_sent_without_reading <= 0
    THEN [n |-> p._lines_sent_without_reading, readfile |-> p.readfile,
          line |-> <<>>,
          exc |-> "RuntimeError: attempted to read more lines than sent"]
    ELSE LET r == readlines(1, p.readfile, <<>>)
             last == Len(r.line)
         IN  [r EXCEPT !.n = IF r.exc = "" THEN 0
                             ELSE p._lines_sent_without_reading,
                       !.line = IF last >= 1 THEN SubSeq(r.line, 1, last - 1)
                                ELSE r.line]

\* A read that does not look at the counter before its loop.
_read_to_current_line_unguarded(p) ==
    readlines(p._lines_sent_without_reading, p.readfile, <<>>)

\* AerotechPrinter._read_to_current_line on printer p: the counter and the
\* read file it leaves, the line it returns (rstrip(EOS) takes every EOS off
\* the end, and a line has one at most) or its exception
_read_to_current_line(p) ==
    IF p._lines_sent_without_reading <= 0
    THEN [n |-> p._lines_sent_without_reading, readfile |-> p.readfile,
          line |-> <<>>,
          exc |-> "RuntimeError: attempted to read more lines than sent"]
    ELSE LET r == readlines(p._lines_sent_without_reading, p.readfile, <<>>)
             last == Len(r.line)
         IN  IF last >= 1 /\ SubSeq(r.line, last, last) = EOS
             THEN [r EXCEPT !.line = SubSeq(r.line, 1, last - 1)]
             ELSE r

\* A call of sendline(line): 'no new line' or 'with new line\n'
A_sendline ==
    /\ aerotech.calls < MaxAerotech
    /\ \E line \in {NoNewLine, WithNewLine}, ok \in BOOLEAN :
            aerotech' = [sendline(aerotech, line, ok) EXCEPT
                            !.calls = @ + 1, !.op = "sendline",
                            !.result = Return(<<>>)]
    /\ UNCHANGED <<s, _owns_serial, responses, sentlines, temp_readings,
                   printing, stop_reading, stop_printing, _buffer,
                   _current_line_idx, _ok_received, _resume_event,
                   _disconnect_pending, _communication_lock,
                   _readline_futures, futures, _print_thread, _read_thread,
                   caller, main, wire, to_device, from_device, device, ghost>>

\* A call of get_response(line)
A_get_response ==
    /\ aerotech.calls < MaxAerotech
    /\ \E line \in {NoNewLine, WithNewLine}, ok \in BOOLEAN :
        LET p == sendline(aerotech, line, ok)
            r == _read_to_current_line(p)
        IN  aerotech' = [p EXCEPT
                !._lines_sent_without_reading = r.n,
                !.readfile = r.readfile,
                !.calls = @ + 1, !.op = "get_response",
                !.result =
                    IF r.exc # "" THEN Raise(r.exc)
                    ELSE IF ~startswith(r.line, SUCCESS_RESPONSE)
                    THEN Raise("RuntimeError: response")
                    ELSE Return(SubSeq(r.line, Len(SUCCESS_RESPONSE) + 1,
                                       Len(r.line)))]
    /\ UNCHANGED <<s, _owns_serial, responses, sentlines, temp_readings,
                   printing, stop_reading, stop_printing, _buffer,
                   _current_line_idx, _ok_received, _resume_event,
                   _disconnect_pending, _communication_lock,
                   _readline_futures, futures, _print_thread, _read_thread,
                   caller, main, wire, to_device, from_device, device, ghost>>

\* A call of _read_to_current_line() by itself
A_read_to_current_line ==
    /\ aerotech.calls < MaxAerotech
    /\ LET r == _read_to_current_line(aerotech)
       IN  aerotech' = [aerotech EXCEPT
                !._lines_sent_without_reading = r.n,
                !.readfile = r.readfile,
                !.calls = @ + 1, !.op = "_read_to_current_line",
                !.result = IF r.exc # "" THEN Raise(r.exc) ELSE Return(r.line)]
    /\ UNCHANGED <<s, _owns_serial, responses, sentlines, temp_readings,
                   printing, stop_reading, stop_printing, _buffer,
                   _current_line_idx, _ok_received, _resume_event,
                   _disconnect_pending, _communication_lock,
                   _readline_futures, futures, _print_thread, _read_thread,
                   caller, main, wire, to_device, from_device, device, ghost>>

\* The peer closes the connection.
A_peer_close ==
    /\ ~aerotech.closed
    /\ aerotech' = [aerotech EXCEPT !.closed = TRUE]
    /\ UNCHANGED <<s, _owns_serial, responses, sentlines, temp_readings,
                   printing, stop_reading, stop_printing, _buffer,
                   _current_line_idx, _ok_received, _resume_event,
                   _disconnect_pending, _communication_lock,
                   _readline_futures, futures, _print_thread, _read_thread,
                   caller, main, wire, to_device, from_device, device, ghost>>

(***************************************************************************)
(* The driver with its threads and its device.                             *)
(***************************************************************************)
\* Printer.__init__, with the calls the main thread and the caller threads
\* are going to make.
Constructed(program, callers) ==
    /\ s = "None"
    /\ _owns_serial = TRUE
    /\ responses = <<>>
    /\ sentlines = <<>>
    /\ temp_readings = <<>>
    /\ printing = FALSE
    /\ stop_reading = FALSE
    /\ stop_printing = FALSE
    /\ _buffer = <<>>
    /\ _current_line_idx = 0
    /\ _ok_received = TRUE
    /\ _resume_event = TRUE
    /\ _disconnect_pending = FALSE
    /\ _communication_lock = "free"
    /\ _readline_futures = <<>>
    /\ futures = <<>>
    /\ _print_thread = NewThread("None")
    /\ _read_thread = NewReader("None")
    /\ caller = callers
    /\ main = IdleMain(program)
    /\ wire = <<>>
    /\ to_device = <<>>
    /\ from_device = <<>>
    /\ device = [seen |-> 0, faults |-> 0, acked |-> <<>>, reports |-> 0]
    /\ ghost = [inflight |-> 0, timed_out |-> {}, resend |-> 0, resend_at |-> 0,
                resend_waiters |-> {}, at_fault |-> {}, write_error |-> FALSE,
                paused_wire |-> 0, paused_idx |-> 0, pending |-> {},
                rolled |-> {}, cleared |-> {}]
    /\ aerotech = AerotechPrinter

\* One session: connect(s), start() and disconnect(), while one thread calls
\* get_response and another sendline.
Init ==
    Constructed(<<"connect", "start", "disconnect">>,
        [c \in Callers |->
            IF c = 1 THEN IdleCaller({"get_response"}, {M114, Comment}, MaxCalls)
            ELSE IdleCaller({"sendline"}, {G1}, MaxCalls)])

Next ==
    \/ Sender
    \/ Receiver
    \/ \E c \in Callers : Caller(c)
    \/ Main
    \/ Device

Spec == Init /\ [][Next]_vars

(***************************************************************************)
(* A print whose receiver is started again: connect(s), start() and, at    *)
(* any later time, start() once more, while the caller threads call        *)
(* sendline.                                                               *)
(***************************************************************************)
InitRestart ==
    Constructed(<<"connect", "start", "start">>,
        [c \in Callers |-> IdleCaller({"sendline"}, {G1, M114}, MaxCalls)])

NextRestart ==
    \/ Sender
    \/ Receiver
    \/ \E c \in Callers : CallerSendline(c)
    \/ MainStart
    \/ Device

SpecRestart == InitRestart /\ [][NextRestart]_vars

(***************************************************************************)
(* A print under which the port is connected again: connect(s), start()    *)
(* and, at any later time, connect(s) once more, while the caller threads  *)
(* call sendline.                                                          *)
(***************************************************************************)
InitReconnect ==
    Constructed(<<"connect", "start", "connect">>,
        [c \in Callers |-> IdleCaller({"sendline"}, {G1}, MaxCalls)])

SpecReconnect == InitReconnect /\ [][NextRestart]_vars

(***************************************************************************)
(* A print of a file, to a device that acknowledges every frame:           *)
(* connect(s), load_file(filepath) and start().                            *)
(***************************************************************************)
InitCodec ==
    Constructed(<<"connect", "load_file", "start">>,
        [c \in Callers |-> IdleCaller({}, {}, 0)])

NextCodec ==
    \/ MainStart \/ M_load_file
    \/ P_while \/ P_if_paused \/ P_if_idx \/ P_idle \/ P_ok_wait \/ P_next_line
    \/ P_write \/ P_clear \/ P_inc_load \/ P_inc_store \/ P_sent
    \/ R_while \/ R_readline \/ R_ok_set \/ R_future \/ R_append \/ R_resolve
    \/ R_pop
    \/ D_ack

SpecCodec == InitCodec /\ [][NextCodec]_vars

(***************************************************************************)
(* A receiver that meets a fault with calls waiting: connect(s) and        *)
(* start(), then three caller threads that call get_response one after    *)
(* another (each once the one before it blocks or is back), and a device   *)
(* that may cut an answer short or ask for a frame again.                  *)
(***************************************************************************)
Waiters == {1, 2, 3}

\* caller c is blocked in get_response, or has made its calls
Waiting(c) ==
    \/ caller[c].pc = "gr_result"
    \/ caller[c].pc = "idle" /\ caller[c].calls = 0

InitFault ==
    Constructed(<<"connect", "start">>,
        [c \in Waiters |-> IdleCaller({"get_response"}, {G1}, MaxCalls)])

NextFault ==
    \/ Sender
    \/ Receiver
    \/ \E c \in Waiters :
        /\ main.pc = "idle" /\ main.program = <<>>
        /\ \A b \in Waiters : b < c => Waiting(b)
        /\ Caller(c)
    \/ MainStart
    \/ Device

SpecFault == InitFault /\ [][NextFault]_vars

(***************************************************************************)
(* A print whose transport fails a write: connect(s) and start(), one      *)
(* caller thread in get_response and one in sendline, a device that        *)
(* acknowledges what it gets.  Every thread that can take a step takes one *)
(* in the end, the device answers in the end; a write need not fail.       *)
(***************************************************************************)
InitWrite ==
    Constructed(<<"connect", "start">>,
        [c \in Callers |->
            IF c = 1 THEN IdleCaller({"get_response"}, {G1}, MaxCalls)
            ELSE IdleCaller({"sendline"}, {G1}, MaxCalls)])

\* the receiver of a print with no stop requested and no fault of the device
Reading ==
    \/ R_while \/ R_readline \/ R_ok_set \/ R_future \/ R_append \/ R_resolve
    \/ R_pop

NextWrite ==
    \/ Sender
    \/ P_write_error
    \/ Reading
    \/ \E c \in Callers : Caller(c)
    \/ MainStart
    \/ D_ack

\* The sender thread, once started, keeps being scheduled.  P_next_line is
\* enabled whenever the thread stands at "next_line" and always leaves it, so
\* its fairness is stated on the position.
FairSender ==
    /\ WF_vars(_print_thread.pc # "next_line" /\ Sender)
    /\ []<>(_print_thread.pc # "next_line")

FairWrite ==
    /\ FairSender
    /\ WF_vars(Reading)
    /\ \A c \in Callers : WF_vars(Caller(c))
    /\ WF_vars(MainStart)
    /\ WF_vars(D_ack)

SpecWrite == InitWrite /\ [][NextWrite]_vars /\ FairWrite

(***************************************************************************)
(* The lifecycle: calls of connect(s), connect(), start() and              *)
(* disconnect(wait) in a row, while a caller thread calls sendline and the *)
(* device acknowledges every frame.  The rows are every row of at most     *)
(* MaxProgram calls and, longer, a second disconnect() after a session,    *)
(* and a session on a port of its own after one on a port it was given,    *)
(* and the other way round.                                                *)
(***************************************************************************)
Programs ==
    UNION {[1..n -> {"connect", "connect()", "start", "disconnect"}] : n \in 1..MaxProgram}
    \cup { <<"connect", "start", "disconnect", "disconnect">>,
           <<"connect()", "disconnect", "connect", "disconnect">>,
           <<"connect", "disconnect", "connect()", "disconnect">>,
           <<"connect", "start", "disconnect", "connect()", "disconnect">> }

MainLife ==
    \/ Main
    \/ M_connect_open \/ M_connect_wait \/ M_connect_clear \/ M_disc_raise

InitLife ==
    \E program \in Programs :
        Constructed(program,
            [c \in Callers |->
                IF c = 1 THEN IdleCaller({"sendline"}, {G1}, MaxCalls)
                ELSE IdleCaller({}, {}, 0)])

NextLife ==
    \/ Sender
    \/ Reading \/ R_finally \/ R_exit
    \/ \E c \in Callers : CallerSendline(c)
    \/ MainLife
    \/ D_ack

SpecLife == InitLife /\ [][NextLife]_vars

(***************************************************************************)
(* What the claims are stated with.                                        *)
(***************************************************************************)
\* bit b of n
Bit(n, b) == (n \div (2 ^ b)) % 2

\* The number whose bit b is set exactly when an odd number of the
\* characters of str have bit b set.
RECURSIVE ParityBits(_, _)
ParityBits(str, b) ==
    IF b < 0 THEN 0
    ELSE (2 ^ b) * (Cardinality({i \in 1..Len(str) : Bit(str[i], b) = 1}) % 2)
         + ParityBits(str, b - 1)

\* 'N<seq> <text>' of a frame: what its checksum is taken of
FramePrefix(frame) == SubSeq(frame, 1, LastStar(frame) - 1)

\* the number of decimal digits of n
Digits(n) == IF n < 10 THEN 1 ELSE IF n < 100 THEN 2 ELSE 3

\* frame is 'N<seq> <text>*<some checksum>\n', and nothing else
IsFrame(frame, seq, text) ==
    /\ frame[1] = 78
    /\ FrameSeq(frame) = seq
    /\ Len(Word(frame)) = 1 + Digits(seq)
    /\ frame[2 + Digits(seq)] = 32
    /\ FrameText(frame) = text
    /\ frame[LastStar(frame)] = 42
    /\ IsDigits(SubSeq(frame, LastStar(frame) + 1, Len(frame) - 1))
    /\ frame[Len(frame)] = 10
    /\ Len(frame) = 1 + Digits(seq) + 1 + Len(text) + 1
                    + Digits(FrameChecksum(frame)) + 1
    /\ ~HasChar(SubSeq(frame, 1, Len(frame) - 1), 10)

\* a frame of a reset-line-number command
IsReset(frame) == startswith(FrameText(frame), M110)

(***************************************************************************)
(* C1. At most one frame is in flight: the sender writes a frame only      *)
(* when the receiver has set the ack flag since the frame before it was    *)
(* written.  (Stated as: never two frames written with no setting of the   *)
(* flag by the receiver in between.)                                       *)
(***************************************************************************)
C1_AtMostOneInFlight == ghost.inflight <= 1

C3_ResponseIsToOwnLine ==
    \A c \in Callers :
        (/\ caller[c].op = "get_response"
         /\ caller[c].pc = "idle"
         /\ caller[c].result.kind = "return"
         /\ caller[c].result.value # <<>>)
        => LET k == AnswerTo(caller[c].result.value)
           IN  /\ k \in 1..Len(wire)
               /\ FrameText(wire[k]) = strip(sendline_text(caller[c].line))

(***************************************************************************)
(* C4. A get_response whose timeout passes with no response for its index, *)
(* the receiver running, returns the empty string and does not raise.      *)
(***************************************************************************)
C4_TimeoutReturnsEmpty ==
    \A c \in ghost.timed_out :
        /\ caller[c].pc = "idle"
        /\ caller[c].result = [kind |-> "return", value |-> <<>>]

\* A call has timed out with the receiver running and its wait still in the table.
C4_Witness ==
    \E c \in ghost.timed_out :
        /\ _is_read_thread_running
        /\ caller[c].buf_len \in DOMAIN _readline_futures
        /\ futures[caller[c].future].state = "PENDING"
        /\ caller[c].result.kind = "return"

(***************************************************************************)
(* C5. A get_response during which the receiver is not running raises      *)
(* RuntimeError and never blocks.                                          *)
(***************************************************************************)
C5_NoReceiverRaises ==
    \A c \in Callers :
        (caller[c].op = "get_response" /\ caller[c].rdead)
        => /\ caller[c].pc # "gr_result"
           /\ (caller[c].pc = "idle"
                => caller[c].result = [kind |-> "raise", value |-> "RuntimeError"])

\* A get_response has registered its wait, found the receiver not running
\* and raised (no disconnect was pending: sendline did not refuse the line).
C5_Witness ==
    \E c \in Callers :
        /\ caller[c].op = "get_response"
        /\ caller[c].rdead
        /\ caller[c].pc = "idle"
        /\ caller[c].future # 0
        /\ ~caller[c].pending
        /\ caller[c].result = [kind |-> "raise", value |-> "RuntimeError"]

(***************************************************************************)
(* C6. A get_response without timeout is never left blocked by the         *)
(* receiver stopping: there is no state in which the call blocks on a      *)
(* pending future while the receiver thread has ended.                     *)
(***************************************************************************)
C6_NoWaiterLeftBehind ==
    \A c \in Callers :
        ~(/\ caller[c].pc = "gr_result"
          /\ ~caller[c].timeout
          /\ futures[caller[c].future].state = "PENDING"
          /\ _read_thread.pc = "dead")

(***************************************************************************)
(* C7. A sendline or get_response called once a disconnect has been        *)
(* requested raises RuntimeError and appends nothing to the send buffer    *)
(* (it never gets as far as the append, or as the wait).                   *)
(***************************************************************************)
C7_RefusedOnceDisconnecting ==
    \A c \in Callers :
        caller[c].pending
        => /\ caller[c].pc \in {"idle", "gr_len", "sl_check"}
           /\ (caller[c].pc = "idle"
                => caller[c].result = [kind |-> "raise", value |-> "RuntimeError"])

\* Both a sendline and a get_response have been refused.
C7_Witness ==
    /\ \A c \in Callers :
        /\ caller[c].pending
        /\ caller[c].pc = "idle"
        /\ caller[c].result.kind = "raise"
    /\ \E c \in Callers : caller[c].op = "sendline"
    /\ \E c \in Callers : caller[c].op = "get_response"

(***************************************************************************)
(* C8. The frame written for the ordinary command at 0-based buffer        *)
(* position i is 'N<i+1> <command, stripped>*<checksum>' and one newline:  *)
(* the lines of a file are numbered 1, 2, 3, ..., 'no new line' first in   *)
(* the buffer is written as 'N1 no new line*44\n', and the line after it   *)
(* is numbered 2.                                                          *)
(***************************************************************************)
C8_FrameOfOrdinaryCommand ==
    \A k \in 1..Len(wire) :
        LET text == strip(_buffer[k])
        IN  /\ ~startswith(text, M110) => IsFrame(wire[k], k, text)
            /\ (k = 1 /\ _buffer[1] = NoNewLine) => wire[1] = N1NoNewLine
            /\ (k = 2 /\ _buffer[1] = NoNewLine) => wire[2] = N2WithNewLine

\* The two lines of test_sendline have been written.
C8_Witness ==
    /\ Len(wire) = 2
    /\ wire[1] = N1NoNewLine
    /\ FrameSeq(wire[2]) = 2

(***************************************************************************)
(* C9. The checksum of a frame is the xor of the character codes of        *)
(* 'N<seq> <command-text>', prefix included (bit by bit: a bit is set when *)
(* an odd number of the characters have it set), and is in 0..255;         *)
(* 'N2 G90' gives 18.                                                      *)
(***************************************************************************)
C9_ChecksumIsXor ==
    \A k \in 1..Len(wire) :
        /\ FrameChecksum(wire[k]) = ParityBits(FramePrefix(wire[k]), 7)
        /\ FrameChecksum(wire[k]) \in 0..255
        /\ FramePrefix(wire[k]) = N2G90 => FrameChecksum(wire[k]) = 18

\* 'N2 G90*18\n' has been written, and a frame with a character above 127.
C9_Witness ==
    /\ \E k \in 1..Len(wire) :
        FramePrefix(wire[k]) = N2G90 /\ FrameChecksum(wire[k]) = 18
    /\ \E k \in 1..Len(wire) : HasChar(wire[k], 233)

(***************************************************************************)
(* C10. A reset-line-number command is framed with N0, and the ordinary    *)
(* command written after it is framed with N1.                             *)
(***************************************************************************)
C10_NumberingRestartsAfterReset ==
    \A k \in 1..Len(wire) :
        IsReset(wire[k])
        => /\ FrameSeq(wire[k]) = 0
           /\ (k < Len(wire) /\ ~IsReset(wire[k + 1])) => FrameSeq(wire[k + 1]) = 1

(***************************************************************************)
(* C11. After the receiver has processed 'Resend: n' (cursor set, ack flag *)
(* set), the next frame the sender writes has sequence number n and the    *)
(* text of buffer entry n, wherever in its send step the sender was.       *)
(***************************************************************************)
C11_ResendRollsBack ==
    (/\ ghost.resend_at \in 1..Len(wire)
     /\ ghost.resend \in 1..Len(_buffer))
    => /\ FrameSeq(wire[ghost.resend_at]) = ghost.resend
       /\ FrameText(wire[ghost.resend_at]) = strip(_buffer[ghost.resend])

(***************************************************************************)
(* C12. After a resend request the receiver keeps reading: with no stop    *)
(* requested and no fault, the receiver that handled the request does not  *)
(* leave its loop (so that the frames written again can be acknowledged).  *)
(***************************************************************************)
C12_ReceiverReadsOnAfterResend ==
    (/\ ghost.resend_at # 0
     /\ ~stop_reading
     /\ _read_thread.exc = "")
    => _read_thread.pc \notin {"finally", "exiting", "dead"}

(***************************************************************************)
(* C13. A resend request is invisible to callers: the resend line is not   *)
(* in the response log, and a get_response that was blocked when the       *)
(* request arrived is not failed or cancelled because of it (no stop       *)
(* requested, no fault).                                                   *)
(***************************************************************************)
C13_ResendInvisible ==
    /\ \A k \in 1..Len(responses) : ~Contains(responses[k], RESEND)
    /\ (~stop_reading /\ _read_thread.exc = "")
        => \A c \in ghost.resend_waiters :
            /\ futures[caller[c].future].state # "CANCELLED"
            /\ caller[c].result.kind # "raise"

(***************************************************************************)
(* C14. When the receiver has terminated with an unhandled fault, every    *)
(* entry the pending wait table had when the fault was caught, however     *)
(* many there were, is resolved with a failure and removed: none of these  *)
(* futures is left pending, none is left in the table.                     *)
(***************************************************************************)
C14_FaultResolvesEveryWaiter ==
    (_read_thread.pc \in {"exiting", "dead"} /\ _read_thread.exc # "")
    => \A id \in ghost.at_fault :
        /\ futures[id].state \in {"FINISHED", "CANCELLED"}
        /\ futures[id].state = "FINISHED" => futures[id].exception # ""
        /\ id \notin Held(_readline_futures)

(***************************************************************************)
(* C15. A write error of the sender is fatal to both activities: once a    *)
(* write has raised, the sender and the receiver both end and no           *)
(* get_response stays blocked.                                             *)
(***************************************************************************)
C15_WriteErrorEndsBoth ==
    ghost.write_error ~>
        (/\ ~_is_print_thread_running
         /\ ~_is_read_thread_running
         /\ \A c \in DOMAIN caller : caller[c].pc # "gr_result")

(***************************************************************************)
(* Shutdown: disconnect(wait) at the end of a session that may have been   *)
(* started and may have been paused, while a caller thread calls sendline. *)
(* The device acknowledges frames and may stop doing so at any time; the   *)
(* threads of the driver keep being scheduled.                             *)
(***************************************************************************)
ProgramsStop ==
    { <<"disconnect">>,
      <<"connect", "disconnect">>,
      <<"connect", "start", "disconnect">>,
      <<"connect", "start", "pause", "disconnect">>,
      <<"connect", "start", "pause", "resume", "disconnect">> }

InitStop ==
    \E program \in ProgramsStop :
        Constructed(program,
            [c \in Callers |->
                IF c = 1 THEN IdleCaller({"sendline"}, {G1}, MaxCalls)
                ELSE IdleCaller({}, {}, 0)])

Stopping == Reading \/ R_finally \/ R_exit

MainStop == Main \/ M_paused

NextStop ==
    \/ Sender
    \/ P_resume_wait
    \/ Stopping
    \/ \E c \in Callers : CallerSendline(c)
    \/ MainStop
    \/ D_ack

FairStop ==
    /\ FairSender
    /\ WF_vars(P_resume_wait)
    /\ WF_vars(Stopping)
    /\ \A c \in Callers : WF_vars(CallerSendline(c))
    /\ WF_vars(MainStop)

SpecStop == InitStop /\ [][NextStop]_vars /\ FairStop

(***************************************************************************)
(* A driver started again after a shutdown: connect(s), start(), a pause,  *)
(* disconnect(wait), then start() once more and the end of the pause.      *)
(***************************************************************************)
InitAgain ==
    Constructed(<<"connect", "start", "pause", "disconnect", "start", "resume">>,
        [c \in Callers |->
            IF c = 1 THEN IdleCaller({"sendline"}, {G1}, MaxCalls)
            ELSE IdleCaller({}, {}, 0)])

SpecAgain == InitAgain /\ [][NextStop]_vars /\ FairStop

(***************************************************************************)
(* A print that is paused and resumed: connect(s), start(), a pause and    *)
(* its end, while two caller threads call sendline.  The device            *)
(* acknowledges every frame, and every thread keeps being scheduled.       *)
(***************************************************************************)
InitPause ==
    Constructed(<<"connect", "start", "pause", "resume">>,
        [c \in Callers |-> IdleCaller({"sendline"}, {G1}, MaxCalls)])

NextPause ==
    \/ P_while \/ P_if_paused \/ P_if_idx \/ P_idle \/ P_ok_wait \/ P_next_line
    \/ P_write \/ P_clear \/ P_inc_load \/ P_inc_store \/ P_sent
    \/ P_resume_wait
    \/ Reading
    \/ \E c \in Callers : CallerSendline(c)
    \/ MainStart \/ M_paused
    \/ D_ack

SpecPause ==
    /\ InitPause
    /\ [][NextPause]_vars
    /\ FairSender
    /\ WF_vars(P_resume_wait)
    /\ WF_vars(Reading)
    /\ \A c \in Callers : WF_vars(CallerSendline(c))
    /\ WF_vars(MainStart \/ M_paused)
    /\ WF_vars(D_ack)

\* C16: disconnect() can be called in any state of the driver (never
\* connected or started, already disconnected, running) without raising:
\* no call of the main thread ends with an exception.
C16_DisconnectNeverRaises == main.exc = ""

\* C20: disconnect closes the port if and only if the driver opened it
\* itself: where disconnect passes its close statement, a port that
\* connect() made is closed (also when an earlier session used a port given
\* to connect), and a port that was given to connect is left as it is.
C20_ClosesItsOwnPortOnly ==
    [][main.pc = "disc_close" /\ main'.pc = "disc_printing"
        => /\ s = "Serial" => s' = "None"
           /\ s = "open" => s' = "open"]_vars

\* C18: disconnect(wait=True) does not ask the sender to stop until every
\* line of the buffer has been transmitted and acknowledged, provided the
\* receiver keeps running: where disconnect(wait=True) sets stop_printing
\* with the receiver in its loop, every line of the buffer has gone out in
\* a frame that the device has acknowledged and whose answer is in the
\* response log.
C18_WaitDrainsBuffer ==
    [][(/\ main.pc = "disc_stop_printing"
        /\ main'.pc = "disc_join_print"
        /\ main.wait
        /\ _read_thread.pc \notin {"None", "except", "finally", "exiting", "dead"})
        => \A k \in 1..Len(_buffer) :
            \E i \in 1..Len(wire) :
                /\ FrameText(wire[i]) = strip(_buffer[k])
                /\ \E a \in 1..Len(device.acked) : device.acked[a] = i
                /\ \E r \in 1..Len(responses) : AnswerTo(responses[r]) = i]_vars

\* C18, with the lines it holds for: disconnect(wait=True) does not ask the
\* sender to stop, while the receiver is in its loop, until every line that
\* was in the buffer when disconnect read its length has gone out in a frame
\* that the device has acknowledged and whose answer is in the response log.
C18_WaitDrainsBufferRead ==
    [][(/\ main.pc = "disc_stop_printing"
        /\ main'.pc = "disc_join_print"
        /\ main.wait
        /\ _read_thread.pc \notin {"None", "except", "finally", "exiting", "dead"})
        => \A k \in 1..main.buf_len :
            \E i \in 1..Len(wire) :
                /\ FrameText(wire[i]) = strip(_buffer[k])
                /\ \E a \in 1..Len(device.acked) : device.acked[a] = i
                /\ \E r \in 1..Len(responses) : AnswerTo(responses[r]) = i]_vars

\* C18's case: disconnect(wait=True) found lines in the buffer and has asked
\* the sender to stop, with the receiver in its loop.
C18_Witness ==
    /\ main.pc = "disc_join_print"
    /\ main.wait
    /\ main.buf_len >= 1
    /\ stop_printing
    /\ _read_thread.pc \notin {"None", "except", "finally", "exiting", "dead"}

\* C17: once disconnect() has returned after start(), neither the sender nor
\* the receiver is alive (the waits of both on the port being shorter than
\* the timeouts of the joins).
C17_NoThreadOutlivesDisconnect ==
    (/\ main.pc = "idle"
     /\ main.program = <<>>
     /\ main.exc = ""
     /\ _print_thread.pc # "None")
    => /\ ~_is_print_thread_running
       /\ ~_is_read_thread_running

\* C19: every call of disconnect returns in the end, with wait=False and
\* with wait=True, also when the device stops acknowledging and when the
\* sender was never started.
C19_DisconnectReturns ==
    (main.pc = "disconnect") ~> (main.pc = "idle")

(***************************************************************************)
(* A print to a device that acknowledges every frame, answers an M114 with *)
(* a position report before its 'ok', and sends temperature reports in     *)
(* between: connect(s), start(), and the caller threads calling sendline.  *)
(***************************************************************************)
NextReports ==
    \/ P_while \/ P_if_paused \/ P_if_idx \/ P_idle \/ P_ok_wait \/ P_next_line
    \/ P_write \/ P_clear \/ P_inc_load \/ P_inc_store \/ P_sent
    \/ Reading
    \/ \E c \in Callers : CallerSendline(c)
    \/ MainStart
    \/ D_ack \/ D_temp

SpecReports == InitRestart /\ [][NextReports]_vars

(***************************************************************************)
(* An AerotechPrinter and the calls made on it, in any order.              *)
(***************************************************************************)
InitAerotech == Constructed(<<>>, [c \in Callers |-> IdleCaller({}, {}, 0)])

NextAerotech ==
    A_sendline \/ A_get_response \/ A_read_to_current_line \/ A_peer_close

SpecAerotech == InitAerotech /\ [][NextAerotech]_vars

(***************************************************************************)
(* Lines that come to the buffer both ways: the main thread loads a file   *)
(* and starts the threads while a caller sends one line, which may be      *)
(* blank, all whitespace, a comment, or a command with a comment.          *)
(***************************************************************************)
InitLines ==
    Constructed(<<"connect", "load_file", "start">>,
        [c \in Callers |->
            IF c = 1
            THEN IdleCaller({"sendline"},
                            Texts({32, 59, 71}, 2) \cup {G1, Comment}, MaxCalls)
            ELSE IdleCaller({}, {}, 0)])

NextLines == NextCodec \/ \E c \in Callers : CallerSendline(c)

SpecLines == InitLines /\ [][NextLines]_vars

\* C21, as the specification has it: when connect or disconnect returns, the
\* cursor is 0 and the send buffer, the response log and the sent log are
\* empty, whatever was buffered or in flight before; and when connect
\* returns the ack flag is set and the disconnect-requested flag is clear.
C21_ReturnsWithSessionReset ==
    [][(main.pc \notin {"idle", "start", "start_print"} /\ main'.pc = "idle" /\ main'.exc = "")
        => /\ _current_line_idx' = 0
           /\ _buffer' = <<>>
           /\ responses' = <<>>
           /\ sentlines' = <<>>
           /\ main.pc # "disc_sentlines" => (_ok_received' /\ ~_disconnect_pending')]_vars

\* C21, with what holds: when disconnect returns, the cursor is 0 and the
\* response log and the sent log are empty, whatever was buffered or in
\* flight before; when connect returns the disconnect-requested flag is
\* clear, and as long as no sender was ever started the cursor is 0, the
\* two logs are empty and the ack flag is set.  (The send buffer is emptied
\* too, and may hold again what a sendline that runs alongside appends.)
C21_DisconnectResetsSession ==
    [][(main.pc \notin {"idle", "start", "start_print"} /\ main'.pc = "idle" /\ main'.exc = "")
        => IF main.pc = "disc_sentlines"
           THEN /\ _current_line_idx' = 0
                /\ responses' = <<>>
                /\ sentlines' = <<>>
           ELSE /\ ~_disconnect_pending'
                /\ _print_thread.pc = "None"
                    => /\ _current_line_idx' = 0
                       /\ responses' = <<>>
                       /\ sentlines' = <<>>
                       /\ _ok_received']_vars

\* C21's case: disconnect has returned from a session in which a frame was
\* written and answered.
C21_Witness ==
    /\ main.pc = "idle"
    /\ main.exc = ""
    /\ _disconnect_pending
    /\ wire # <<>>
    /\ device.acked # <<>>
    /\ _print_thread.pc = "dead"
    /\ responses = <<>>
    /\ sentlines = <<>>
    /\ _current_line_idx = 0

\* C22: start() is idempotent: a start() made while a thread is alive leaves
\* that thread as it is and makes no other, so that a new sender or receiver
\* thread comes only in place of one that is not alive, and at most one of
\* each is alive after any number of calls.
C22_StartIsIdempotent ==
    [][/\ (main.pc = "start_print" /\ main'.pc = "idle" /\ _is_print_thread_running)
            => _print_thread' = _print_thread
       /\ (main.pc = "start" /\ main'.pc = "start_print" /\ _is_read_thread_running)
            => _read_thread' = _read_thread]_vars

\* C22's case: the second start() has returned, and both threads have been
\* alive since the first (no thread ends as long as the device rejects no
\* frame), with a frame written in between.
C22_Witness ==
    /\ main.pc = "idle"
    /\ main.program = <<>>
    /\ device.faults = 0
    /\ wire # <<>>
    /\ _is_print_thread_running
    /\ _is_read_thread_running

\* C23: after start() has returned, a sender and a receiver are running, and
\* they keep running until a stop is requested after that start, also when
\* the start() follows a disconnect() whose join left a thread alive with
\* its stop flag set: here no stop is requested after the second start().
C23_StartedThreadsKeepRunning ==
    (main.pc = "idle" /\ Len(main.program) <= 1)
    => /\ _is_print_thread_running
       /\ _is_read_thread_running

\* C24: while paused is True the sender starts no new transmission: after
\* the flag is set the cursor advances, and the wire grows, by at most the
\* one frame that was past the pause check, and the receiver stays in its
\* loop; and once paused is False again the lines left in the buffer are
\* sent and their answers logged.
C24_PauseHoldsSender ==
    /\ [](paused => /\ Len(wire) <= ghost.paused_wire + 1
                    /\ _current_line_idx <= ghost.paused_idx + 1
                    /\ _read_thread.pc \notin {"finally", "exiting", "dead"})
    /\ (main.program = <<>> /\ main.pc = "idle")
            ~> (_current_line_idx = Len(_buffer) /\ Len(responses) = Len(_buffer))

\* C24's case: the print is paused with a line left in the buffer, the
\* sender waits for the end of the pause, and one frame has gone out since
\* the flag was set.
C24_Witness ==
    /\ paused
    /\ _print_thread.pc = "resume_wait"
    /\ Len(wire) = ghost.paused_wire + 1
    /\ _current_line_idx = ghost.paused_idx + 1
    /\ _current_line_idx < Len(_buffer)

\* C25: with a device that acknowledges every frame no acknowledgment is
\* lost: every command of the buffer is transmitted and acknowledged in the
\* end, after which the sender idles with printing False, for good.
C25_EveryCommandAcknowledged ==
    <>[](/\ Len(wire) = Len(_buffer)
         /\ Len(device.acked) = Len(_buffer)
         /\ Len(responses) = Len(_buffer)
         /\ _print_thread.pc \in {"while", "if_paused", "if_idx", "idle"}
         /\ ~printing)

\* C25's case: two commands have been transmitted and acknowledged, and the
\* sender idles with printing False.
C25_Witness ==
    /\ Len(_buffer) = 2
    /\ Len(wire) = 2
    /\ Len(responses) = 2
    /\ _print_thread.pc = "while"
    /\ ~printing

\* C26: whenever the sender has drained a buffer that was loaded before
\* start() and has gone idle, with printing False and no resend, as many
\* frames were written as the buffer has lines, one for each line in its
\* order, and the cursor equals the length of the buffer.
C26_DrainedBufferSentOnce ==
    (_print_thread.pc # "None" /\ ~printing)
    => /\ Len(wire) = Len(_buffer)
       /\ _current_line_idx = Len(_buffer)
       /\ \A k \in 1..Len(_buffer) : FrameText(wire[k]) = strip(_buffer[k])

\* C26's case: the sender has gone idle after a file of several lines.
C26_Witness ==
    /\ _print_thread.pc = "while"
    /\ ~printing
    /\ Len(_buffer) >= 3
    /\ Len(wire) = Len(_buffer)

\* C30: once stop has been requested the sender transmits no further frame:
\* no frame is written while stop_printing is set, and a sender that leaves
\* its wait for the ack flag because stop was requested, the flag still
\* clear, goes on to exit and not to prepare and write the pending frame.
C30_NoFrameAfterStop ==
    [][/\ Len(wire') > Len(wire) => ~stop_printing
       /\ (/\ _print_thread.pc = "ok_wait"
           /\ stop_printing /\ ~_ok_received
           /\ _print_thread'.pc # "ok_wait")
          => _print_thread'.pc \in {"while", "exiting"}]_vars

\* What is left of a line once it is trimmed and cut at the first ';'.
Trimmed(line) ==
    LET t == strip(line)
        cut == CHOOSE k \in 1..Len(t) + 1 :
                    /\ k = Len(t) + 1 \/ t[k] = 59
                    /\ \A j \in 1..k - 1 : t[j] # 59
    IN  SubSeq(t, 1, cut - 1)

\* The lines of which something is left, in their order.
Kept(lines) ==
    SelectSeq([k \in 1..Len(lines) |-> Trimmed(lines[k])],
              LAMBDA line : line # <<>>)

\* The line of a sendline call of caller c that has returned, if any.
SentBy(c) ==
    IF caller[c].pc = "idle" /\ caller[c].calls = 0
            /\ caller[c].result = Return(<<>>)
    THEN <<caller[c].line>> ELSE <<>>

\* C27: sendline and load_file append only what is left of a line after it
\* is trimmed and cut at the first ';', and only when something is left: a
\* load_file appends the kept lines of the file in the file's order, a
\* sendline appends its kept line or, when nothing is left of it, returns
\* with the buffer as it was; no buffer entry is empty or blank, and no
\* frame carries an empty command.
C27_OnlyNonEmptyLinesBuffered ==
    /\ [](/\ \A k \in 1..Len(_buffer) :
                _buffer[k] # <<>> /\ strip(_buffer[k]) # <<>>
          /\ \A k \in 1..Len(wire) : FrameText(wire[k]) # <<>>)
    /\ [][/\ (_buffer' # _buffer /\ _buffer' # <<>>)
             => \/ /\ main.program # <<>> /\ Head(main.program) = "load_file"
                   /\ main'.program # main.program
                   /\ \E file \in Files : _buffer' = _buffer \o Kept(file)
                \/ \E c \in Callers :
                        /\ caller[c].pc = "sl_append" /\ caller'[c].pc = "idle"
                        /\ _buffer' = Append(_buffer, Trimmed(caller[c].line))
          /\ \A c \in Callers :
                (/\ caller[c].pc = "sl_check"
                 /\ caller'[c] = [caller[c] EXCEPT !.pc = "idle",
                                                   !.result = Return(<<>>)])
                => /\ Trimmed(caller[c].line) = <<>>
                   /\ _buffer' = _buffer]_vars

\* C27's case: a comment-only sendline has returned and a file with a
\* blank or comment-only line after 'G90' was loaded; only 'G90' is in the
\* buffer, and it was transmitted.
C27_Witness ==
    /\ SentBy(1) # <<>>
    /\ Kept(SentBy(1)) = <<>>
    /\ Len(main.program) <= 1
    /\ _buffer = <<G90>>
    /\ Len(wire) = 1

\* C28: a get_response(line) that returns has consumed one response line for
\* each line sent since the last read, the line of this call included, has
\* returned the peer's answer to the line of this call without its '%' and
\* its line end, and has left the counter of unread lines at 0.
C28_ResponseToTheLineJustSent ==
    [][(/\ aerotech'.calls = aerotech.calls + 1
        /\ aerotech'.op = "get_response"
        /\ aerotech'.result.kind = "return")
       => /\ aerotech'.result.value = <<48 + Len(aerotech'.sendall)>>
          /\ Len(aerotech.readfile) + 1 - Len(aerotech'.readfile)
                = aerotech._lines_sent_without_reading + 1
          /\ aerotech'._lines_sent_without_reading = 0]_vars

\* C28's case: get_response has returned '3', the answer to its own line,
\* after two sendline calls whose answers had not been read.
C28_Witness ==
    /\ aerotech.op = "get_response"
    /\ aerotech.calls = 3
    /\ aerotech.result = Return(<<51>>)
    /\ aerotech.readfile = <<>>
    /\ aerotech._lines_sent_without_reading = 0

C31_PausedSenderObservesStop ==
    /\ (stop_printing /\ paused /\ _print_thread.pc = "resume_wait")
            ~> ~_is_print_thread_running
    /\ [][(/\ _print_thread.pc = "resume_wait"
           /\ stop_printing
           /\ _print_thread'.pc # "resume_wait")
          => _print_thread'.pc \in {"while", "exiting"}]_vars

\* C34: a wait registered for an index n that the response log already has
\* is resolved at once and without error: the call goes on with a future
\* that is finished with entry n of the log, the n-th response.
C34_ResolvedFastPath ==
    [][\A c \in Callers :
        (/\ caller[c].pc = "gr_future"
         /\ caller'[c].pc # "gr_future"
         /\ caller[c].buf_len \in 1..Len(responses))
        => /\ caller'[c].pc = "gr_alive"
           /\ futures'[caller'[c].future] =
                [state |-> "FINISHED",
                 result |-> responses[caller[c].buf_len],
                 exception |-> ""]]_vars

\* C35: the append of a response and the resolution of its waiter are one
\* step for every other thread: in no state is response n in the response
\* log while the table still holds an unresolved wait for n, and a waiter
\* whose future was finished with a value for n finds that value as entry n
\* of the log.
C35_AppendAndResolveAtomic ==
    /\ \A n \in DOMAIN _readline_futures, c \in Callers :
            (/\ n <= Len(responses)
             /\ caller[c].pc = "gr_result"
             /\ caller[c].future = _readline_futures[n])
            => futures[_readline_futures[n]].state # "PENDING"
    /\ \A c \in Callers :
            (/\ caller[c].pc = "gr_result"
             /\ futures[caller[c].future].state = "FINISHED"
             /\ futures[caller[c].future].exception = ""
             /\ caller[c].future \in Held(_readline_futures))
            => /\ caller[c].buf_len <= Len(responses)
               /\ responses[caller[c].buf_len] = futures[caller[c].future].result

\* the wait of caller c's last get_response is still registered in the table
Registered(c) ==
    /\ caller[c].buf_len \in DOMAIN _readline_futures
    /\ _readline_futures[caller[c].buf_len] = caller[c].future

\* C36: the wait of a get_response that timed out does not stay in the table
\* once its response is in the response log (the receiver being outside
\* _set_readline_result and its clean-up), nor once the receiver has ended.
C36_TimedOutWaitCleanedUp ==
    \A c \in ghost.timed_out :
        Registered(c)
        => /\ \/ caller[c].buf_len > Len(responses)
              \/ _read_thread.pc \in {"append", "resolve", "pop", "except", "finally"}
           /\ _read_thread.pc # "dead"

\* C33: the receiver that reads a line without its end sets stop_printing,
\* stop_reading and the ack flag before it ends with RuntimeError; and once
\* it has ended that way, no get_response is left blocked on a pending
\* future.
C33_CutLineStopsAndFailsWaiters ==
    /\ [][(_read_thread.pc = "midline_set" /\ _read_thread'.pc = "except")
          => stop_printing' /\ stop_reading' /\ _ok_received']_vars
    /\ []((/\ _read_thread.pc = "dead"
           /\ _read_thread.exc = "RuntimeError"
           /\ stop_printing /\ stop_reading)
          => \A c \in DOMAIN caller :
                caller[c].pc = "gr_result"
                => futures[caller[c].future].state # "PENDING")

\* C32: a read that returns the empty line while the receiver holds the
\* beginning of a response, text with no acknowledgment in it, is taken for
\* a fault of the transport: the receiver goes on to stop both threads, set
\* the ack flag and raise.
C32_EmptyReadMidResponseIsFault ==
    [][(/\ _read_thread.pc = "readline"
        /\ IsPort(s)
        /\ from_device = <<>>
        /\ _read_thread.full_resp # <<>>
        /\ ~Contains(_read_thread.full_resp, OK)
        /\ _read_thread'.pc # "readline")
       => _read_thread'.pc = "midline"]_vars

\* C37: a line that begins with 'T:' is recorded in temp_readings and
\* nowhere else: reading it leaves the accumulated response and the ack flag
\* as they were, and no entry of the response log contains it.
C37_TemperatureRecordedApart ==
    /\ [](\A k \in 1..Len(responses) : ~Contains(responses[k], <<84, 58>>))
    /\ [][(/\ _read_thread.pc = "readline"
           /\ IsPort(s)
           /\ from_device # <<>>
           /\ startswith(Head(from_device), <<84, 58>>)
           /\ _read_thread'.pc # "readline")
          => /\ temp_readings' = Append(temp_readings, Head(from_device))
             /\ _read_thread'.full_resp = _read_thread.full_resp
             /\ _ok_received' = _ok_received]_vars

\* the lines of a sequence, one after the other
RECURSIVE Flatten(_)
Flatten(lines) ==
    IF lines = <<>> THEN <<>> ELSE Head(lines) \o Flatten(Tail(lines))

\* C38: the receiver accumulates the lines it reads (a resend request is
\* handled apart and is not among them); the line with the ack
\* token sets the ack flag and completes the response: one entry is appended
\* to the response log, the lines read since the response before it one
\* after the other, of which only the last has the token; the future of the
\* entry's index is finished with the entry, its wait leaves the table and
\* the accumulated text is empty again.
C38_ResponseIsLinesSinceLast ==
    /\ []((\A k \in 1..Len(_read_thread.lines) :
                ~startswith(_read_thread.lines[k], RESEND))
           => _read_thread.full_resp = Flatten(_read_thread.lines))
    /\ [][/\ (_read_thread.pc = "ok_set" /\ _read_thread'.pc = "future")
             => _ok_received'
          /\ (_read_thread.pc = "append" /\ _read_thread'.pc = "resolve")
             => LET lines == _read_thread.lines
                IN  /\ responses' = Append(responses, Flatten(lines))
                    /\ lines # <<>>
                    /\ Contains(lines[Len(lines)], OK)
                    /\ \A k \in 1..Len(lines) - 1 : ~Contains(lines[k], OK)
          /\ (_read_thread.pc = "resolve" /\ _read_thread'.pc # "resolve")
             => /\ _read_thread'.pc = "pop"
                /\ _read_thread.linenum = Len(responses)
                /\ futures'[_readline_futures[Len(responses)]] =
                        [state |-> "FINISHED",
                         result |-> responses[Len(responses)],
                         exception |-> ""]
          /\ (_read_thread.pc = "pop" /\ _read_thread'.pc # "pop")
             => /\ _read_thread'.full_resp = <<>>
                /\ Len(responses) \notin DOMAIN _readline_futures']_vars

\* C38's case: a response of three lines, a temperature report, a position
\* report and the acknowledgment, has been completed, and the receiver is
\* back in its loop with nothing accumulated.
C38_Witness ==
    /\ \E k \in 1..Len(responses) :
            /\ startswith(responses[k], TempLine \o <<88, 58>>)
            /\ Contains(responses[k], OK)
    /\ _read_thread.pc = "while"
    /\ _read_thread.full_resp = <<>>
    /\ Len(responses) = Len(device.acked)

\* C39 as stated: the sequence number of a frame written is greater than
\* that of the frame before it, unless the frame is the first one written
\* after a resend request set the cursor or is a reset-line-numbering
\* command.
C39_Original ==
    \A k \in 2..Len(wire) :
        \/ FrameSeq(wire[k]) > FrameSeq(wire[k - 1])
        \/ k \in ghost.rolled
        \/ IsReset(wire[k])

\* C39: the sequence number of a frame written is greater than that of the
\* frame before it, unless the frame is the first one written after a resend
\* request set the cursor, is the first one written after connect() or
\* disconnect() set the cursor to 0, or is a reset-line-numbering command,
\* which has the number 0.
C39_SequenceNumbersIncrease ==
    \A k \in 2..Len(wire) :
        \/ FrameSeq(wire[k]) > FrameSeq(wire[k - 1])
        \/ k \in ghost.rolled
        \/ k \in ghost.cleared
        \/ IsReset(wire[k]) /\ FrameSeq(wire[k]) = 0

\* C39's case: two lines were sent with increasing numbers, connect() has
\* set the cursor to 0 under the running sender, and the frame written next
\* has the number of the frame before it.
C39_Witness ==
    /\ Len(wire) >= 3
    /\ FrameSeq(wire[2]) > FrameSeq(wire[1])
    /\ \E k \in 3..Len(wire) :
            /\ k \in ghost.cleared
            /\ FrameSeq(wire[k]) <= FrameSeq(wire[k - 1])

====
